---- MODULE Spec2Model ----
(***************************************************************************)
(* PortfolioFlowTracker (src/src/transactions_visualize.py): the position  *)
(* ledger, the pool of available funds, the node registry and the flow     *)
(* edges, driven by process_transactions and by direct calls of the        *)
(* tracker's methods.                                                      *)
(*                                                                         *)
(* Money is an integer number of currency units.  Exchange rates are held  *)
(* in tenths (12 = 1.2, 11 = 1.1) and every native amount is a multiple of *)
(* 10, so amount * rate is exact.  Dates are day numbers; the ISO strings  *)
(* 'YYYY-MM-DD' the code sorts on order the same way.                      *)
(***************************************************************************)
EXTENDS Integers, Sequences, FiniteSets, TLC

VARIABLES
    positions,        \* self.positions: symbol -> Position
    available_funds,  \* self.available_funds: list of FundSource
    flow_data,        \* self.flow_data: list of edges
    node_labels,      \* self.node_labels
    node_colors,      \* self.node_colors
    node_map,         \* self.node_map: label -> index (0-based)
    currency_cache,   \* self.currency_cache: symbol -> currency
    exchange_rates,   \* self.exchange_rates: date -> rate (tenths)
    stock_files,      \* resources/<symbol>.csv, the currency artifact of each symbol
    file_reads,       \* how many times each symbol's artifact has been looked up and read
    dividends,        \* the Dividends column of each symbol's artifact: the dates with a payment
    attributed,       \* the symbols whose received dividends have been credited to the pool
    raw_tx,           \* transaction_parser: the raw record the loop has just looked at
    today,            \* download_stock_history: date.today(), as a day number
    allocations,      \* ghost: the invocations of _allocate_funds, in the order made
    rows,             \* the rows of transactions.csv, in file order
    df,               \* the sorted frame process_transactions iterates
    idx,              \* rows of df already replayed
    ncalls,           \* direct method calls made so far
    pc,               \* "file": nothing read; "replay": inside the loop; "unit": direct calls
    created,          \* every FundSource constructed so far, in construction order
    ret               \* the locals of the last operation (arguments, usd_value, allocated)

vars == <<positions, available_funds, flow_data, node_labels, node_colors, node_map,
          currency_cache, exchange_rates, stock_files, file_reads, dividends, attributed,
          raw_tx, today, allocations, rows, df, idx, ncalls, pc, created, ret>>

----------------------------------------------------------------------------
(* Bounds *)

MaxRows == 3      \* rows replayed by process_transactions (Spec)
MaxDeep == 6      \* rows replayed over the narrow input family (SpecFifo)
MaxFile == 3      \* rows of an unsorted transactions file (SpecSort)
MaxCalls == 4     \* direct method calls (SpecUnit)

Symbols == {"AAPL", "MSFT"}
Dates == 1 .. 2
CompensationTags == {"RSU", "ESPP", "PSU"}
SourceTags == {"Funds"} \cup CompensationTags

\* (quantity, price) pairs: native values 0, 10 and 20
QtyPrice == {<<1, 0>>, <<1, 10>>, <<2, 10>>}

Row(tt, s, d, q, p, src) ==
    [transaction |-> tt, symbol |-> s, date |-> d, quantity |-> q, price |-> p, source |-> src]

SellRows == {Row("sell", s, d, qp[1], qp[2], "Funds") : s \in Symbols, d \in Dates, qp \in QtyPrice}
BuyRows == {Row("buy", s, d, qp[1], qp[2], "Funds") : s \in Symbols, d \in Dates, qp \in QtyPrice}
CompRows == {Row("buy", "MSFT", d, qp[1], qp[2], k) : d \in Dates, qp \in {<<1, 10>>, <<2, 10>>}, k \in CompensationTags}
Rows == SellRows \cup BuyRows \cup CompRows

\* a raw record before any has been read: no key but an empty symbol
NoRaw == [symbol |-> ""]

----------------------------------------------------------------------------
(* Currency *)

\* The artifact of a symbol is absent, has no Currency column, has a header and
\* no row, makes pd.read_csv raise, or holds the code the downloader wrote in its
\* Currency column ('N/A' when the ticker info had none).
Currencies == {"USD", "EUR", "GBP"}
FileStates == {"absent", "no_column", "empty", "unreadable", "N/A"} \cup Currencies

\* mutant: the fallback currency is 'EUR'
CurrencyOfFile_FallbackEUR(file) ==
    IF file \in {"absent", "no_column", "empty", "unreadable"} THEN "EUR"
    ELSE IF file = "N/A" THEN "nan"
    ELSE file

\* what _get_stock_currency finds on disk: the first Currency cell of the
\* artifact, else "USD".  pd.read_csv parses the cell 'N/A' as a missing value,
\* so df.iloc[0]['Currency'] is NaN for it.
CurrencyOfFile(file) ==
    IF file \in {"absent", "no_column", "empty", "unreadable"} THEN "USD"
    ELSE IF file = "N/A" THEN "nan"
    ELSE file

\* mutant: the 'USD' fallback is returned without being stored in the cache
_get_stock_currency_FallbackNotCached(cache, files, symbol) ==
    IF symbol \in DOMAIN cache
    THEN [currency |-> cache[symbol], cache |-> cache, read |-> FALSE]
    ELSE LET c == CurrencyOfFile(files[symbol])
         IN [currency |-> c,
             cache |-> IF files[symbol] \in {"absent", "no_column", "empty", "unreadable"}
                       THEN cache
                       ELSE [s \in DOMAIN cache \cup {symbol} |->
                               IF s = symbol THEN c ELSE cache[s]],
             read |-> TRUE]

\* _get_stock_currency: the memoized value, else what is found on disk; the
\* result is stored in the cache either way.  read: the call went to the disk.
_get_stock_currency(cache, files, symbol) ==
    IF symbol \in DOMAIN cache
    THEN [currency |-> cache[symbol], cache |-> cache, read |-> FALSE]
    ELSE LET c == CurrencyOfFile(files[symbol])
         IN [currency |-> c,
             cache |-> [s \in DOMAIN cache \cup {symbol} |-> IF s = symbol THEN c ELSE cache[s]],
             read |-> TRUE]

\* one more lookup of the symbol's artifact, when the call went to the disk
CountRead(reads, symbol, read) ==
    IF read THEN [reads EXCEPT ![symbol] = @ + 1] ELSE reads

\* _load_exchange_rates: one entry per row of EURUSD=X.csv; a file that cannot be
\* read leaves the table empty.
_load_exchange_rates(file) ==
    IF file.readable THEN [d \in DOMAIN file.close |-> file.close[d]] ELSE <<>>

FallbackRate == 11

_eur_to_usd(rates, amount_eur, date) ==
    IF date \in DOMAIN rates
    THEN (amount_eur * rates[date]) \div 10
    ELSE (amount_eur * FallbackRate) \div 10

\* mutant: every currency but USD is converted as EUR
_to_usd_OtherAsEUR(rates, amount, from_currency, date) ==
    IF from_currency = "USD" THEN amount
    ELSE _eur_to_usd(rates, amount, date)

_to_usd(rates, amount, from_currency, date) ==
    IF from_currency = "USD" THEN amount
    ELSE IF from_currency = "EUR" THEN _eur_to_usd(rates, amount, date)
    ELSE amount

----------------------------------------------------------------------------
(* Node registry *)

\* hash(symbol) is salted per process and fixed for the life of a tracker;
\* one salt is modelled.
StrHash(symbol) == IF symbol = "AAPL" THEN 7 ELSE IF symbol = "MSFT" THEN 23 ELSE 41

PaletteSize == 20

_get_node_color(symbol) == StrHash(symbol) % PaletteSize

InitialCashColor == 0
CompensationColor == 2

Registry(labels, colors, map) == [labels |-> labels, colors |-> colors, map |-> map]

\* mutant: registering a label drops 'Initial Cash' from node_map
RegisterLabel_DropsInitialCash(reg, label, color) ==
    IF label \in DOMAIN reg.map THEN reg
    ELSE [labels |-> Append(reg.labels, label),
          colors |-> Append(reg.colors, color),
          map |-> [l \in (DOMAIN reg.map \ {"Initial Cash"}) \cup {label} |->
                     IF l = label THEN Len(reg.labels) ELSE reg.map[l]]]

\* mutant: the label is appended without looking it up
RegisterLabel_AlwaysAppends(reg, label, color) ==
    [labels |-> Append(reg.labels, label),
     colors |-> Append(reg.colors, color),
     map |-> [l \in DOMAIN reg.map \cup {label} |->
                IF l = label THEN Len(reg.labels) ELSE reg.map[l]]]

RegisterLabel(reg, label, color) ==
    IF label \in DOMAIN reg.map THEN reg
    ELSE [labels |-> Append(reg.labels, label),
          colors |-> Append(reg.colors, color),
          map |-> [l \in DOMAIN reg.map \cup {label} |->
                     IF l = label THEN Len(reg.labels) ELSE reg.map[l]]]

_add_node(reg, symbol) == RegisterLabel(reg, symbol, _get_node_color(symbol))

----------------------------------------------------------------------------
(* Position ledger *)

Position(symbol, quantity, currency, total_value) ==
    [symbol |-> symbol, quantity |-> quantity, currency |-> currency, total_value |-> total_value]

PutPosition(pos, symbol, p) ==
    [s \in DOMAIN pos \cup {symbol} |-> IF s = symbol THEN p ELSE pos[s]]

DelPosition(pos, symbol) == [s \in DOMAIN pos \ {symbol} |-> pos[s]]

\* mutant: a buy replaces the position it finds
ApplyBuy_Overwrites(pos, symbol, quantity, currency, total_value) ==
    PutPosition(pos, symbol, Position(symbol, quantity, currency, total_value))

ApplyBuy(pos, symbol, quantity, currency, total_value) ==
    IF symbol \in DOMAIN pos
    THEN PutPosition(pos, symbol,
                     [pos[symbol] EXCEPT !.quantity = @ + quantity, !.total_value = @ + total_value])
    ELSE PutPosition(pos, symbol, Position(symbol, quantity, currency, total_value))

\* mutant: `if position.quantity < 0` guards the removal
ApplySell_KeepsZero(pos, symbol, quantity) ==
    IF symbol \in DOMAIN pos
    THEN IF pos[symbol].quantity - quantity < 0
         THEN DelPosition(pos, symbol)
         ELSE PutPosition(pos, symbol, [pos[symbol] EXCEPT !.quantity = @ - quantity])
    ELSE pos

ApplySell(pos, symbol, quantity) ==
    IF symbol \in DOMAIN pos
    THEN IF pos[symbol].quantity - quantity <= 0
         THEN DelPosition(pos, symbol)
         ELSE PutPosition(pos, symbol, [pos[symbol] EXCEPT !.quantity = @ - quantity])
    ELSE pos

----------------------------------------------------------------------------
(* Fund pool *)

\* obj is the identity of the Python object: its position in `created`.  It is
\* no field of the dataclass, and == does not look at it.
FundSource(source_type, symbol, amount_usd, date, transaction_id, obj) ==
    [source_type |-> source_type, symbol |-> symbol, amount_usd |-> amount_usd,
     date |-> date, transaction_id |-> transaction_id, obj |-> obj]

\* the generated __eq__ of the dataclass: the five fields
SameFund(a, b) ==
    /\ a.source_type = b.source_type
    /\ a.symbol = b.symbol
    /\ a.amount_usd = b.amount_usd
    /\ a.date = b.date
    /\ a.transaction_id = b.transaction_id

\* transaction_id=len(self.available_funds)
NextTransactionId(funds) == Len(funds)

\* list.sort(key=transaction_id): stable, ascending
InsertById(s, f) ==
    LET k == Cardinality({i \in 1 .. Len(s) : s[i].transaction_id <= f.transaction_id})
    IN SubSeq(s, 1, k) \o <<f>> \o SubSeq(s, k + 1, Len(s))

RECURSIVE SortByTransactionId(_)
SortByTransactionId(s) ==
    IF s = <<>> THEN <<>>
    ELSE InsertById(SortByTransactionId(SubSeq(s, 1, Len(s) - 1)), s[Len(s)])

\* mutant: every origin is labelled with the symbol of its fund source
SourceNode_AlwaysSymbol(fund) == fund.symbol

\* source_node = fund.symbol if fund.source_type == 'sell' else 'Initial Cash'
SourceNode(fund) == IF fund.source_type = "sell" THEN fund.symbol ELSE "Initial Cash"

\* mutant: `if remaining_amount < 0: break`
RECURSIVE AllocLoop_BreakBelowZero(_, _, _, _, _)
AllocLoop_BreakBelowZero(funds, i, remaining_amount, allocated, funds_to_remove) ==
    IF i > Len(funds) \/ remaining_amount < 0
    THEN [funds |-> funds, remaining_amount |-> remaining_amount,
          allocated |-> allocated, funds_to_remove |-> funds_to_remove]
    ELSE LET fund == funds[i]
         IN IF fund.amount_usd <= remaining_amount
            THEN AllocLoop_BreakBelowZero(funds, i + 1, remaining_amount - fund.amount_usd,
                                          Append(allocated, <<SourceNode(fund), fund.amount_usd>>),
                                          Append(funds_to_remove, fund))
            ELSE [funds |-> [funds EXCEPT ![i].amount_usd = @ - remaining_amount],
                  remaining_amount |-> 0,
                  allocated |-> Append(allocated, <<SourceNode(fund), remaining_amount>>),
                  funds_to_remove |-> funds_to_remove]

\* the for loop of _allocate_funds over the sorted pool, from position i
RECURSIVE AllocLoop(_, _, _, _, _)
AllocLoop(funds, i, remaining_amount, allocated, funds_to_remove) ==
    IF i > Len(funds) \/ remaining_amount <= 0
    THEN [funds |-> funds, remaining_amount |-> remaining_amount,
          allocated |-> allocated, funds_to_remove |-> funds_to_remove]
    ELSE LET fund == funds[i]
         IN IF fund.amount_usd <= remaining_amount
            THEN AllocLoop(funds, i + 1, remaining_amount - fund.amount_usd,
                           Append(allocated, <<SourceNode(fund), fund.amount_usd>>),
                           Append(funds_to_remove, fund))
            ELSE [funds |-> [funds EXCEPT ![i].amount_usd = @ - remaining_amount],
                  remaining_amount |-> 0,
                  allocated |-> Append(allocated, <<SourceNode(fund), remaining_amount>>),
                  funds_to_remove |-> funds_to_remove]

\* list.remove(x): drops the first element equal to x
RemoveFirst(s, x) ==
    IF \E i \in 1 .. Len(s) : SameFund(s[i], x)
    THEN LET k == CHOOSE i \in 1 .. Len(s) :
                      SameFund(s[i], x) /\ \A j \in 1 .. i - 1 : ~SameFund(s[j], x)
         IN SubSeq(s, 1, k - 1) \o SubSeq(s, k + 1, Len(s))
    ELSE s

RECURSIVE RemoveEach(_, _)
RemoveEach(s, xs) ==
    IF xs = <<>> THEN s ELSE RemoveEach(RemoveFirst(s, Head(xs)), Tail(xs))

\* mutant: the remainder is not attributed to 'Initial Cash'
_allocate_funds_NoFallback(funds, required_amount) ==
    LET sorted == SortByTransactionId(funds)
        loop == AllocLoop(sorted, 1, required_amount, <<>>, <<>>)
    IN [funds |-> RemoveEach(loop.funds, loop.funds_to_remove), allocated |-> loop.allocated]

\* mutant: `if remaining_amount >= 0` guards the 'Initial Cash' tuple
_allocate_funds_AlwaysFallback(funds, required_amount) ==
    LET sorted == SortByTransactionId(funds)
        loop == AllocLoop(sorted, 1, required_amount, <<>>, <<>>)
    IN [funds |-> RemoveEach(loop.funds, loop.funds_to_remove),
        allocated |-> IF loop.remaining_amount >= 0
                      THEN Append(loop.allocated, <<"Initial Cash", loop.remaining_amount>>)
                      ELSE loop.allocated]

_allocate_funds(funds, required_amount) ==
    LET sorted == SortByTransactionId(funds)
        loop == AllocLoop(sorted, 1, required_amount, <<>>, <<>>)
        left == RemoveEach(loop.funds, loop.funds_to_remove)
    IN [funds |-> left,
        allocated |-> IF loop.remaining_amount > 0
                      THEN Append(loop.allocated, <<"Initial Cash", loop.remaining_amount>>)
                      ELSE loop.allocated]

----------------------------------------------------------------------------
(* The three transaction handlers, as functions of the tracker's fields *)

Value(t, cache, files, rates) ==
    LET cur == _get_stock_currency(cache, files, t.symbol)
        total_value == t.quantity * t.price
    IN [currency |-> cur.currency, cache |-> cur.cache, read |-> cur.read,
        total_value |-> total_value,
        usd_value |-> _to_usd(rates, total_value, cur.currency, t.date)]

\* mutant: the proceeds are credited only when a position is held
_process_sell_transaction_OnlyIfHeld(t, pos, funds, cache, files, rates, log) ==
    LET v == Value(t, cache, files, rates)
        fund_source == FundSource("sell", t.symbol, v.usd_value, t.date,
                                  NextTransactionId(funds), Len(log) + 1)
        held == t.symbol \in DOMAIN pos
    IN [usd_value |-> v.usd_value,
        cache |-> v.cache,
        read |-> v.read,
        funds |-> IF held THEN Append(funds, fund_source) ELSE funds,
        created |-> IF held THEN Append(log, fund_source) ELSE log,
        positions |-> ApplySell(pos, t.symbol, t.quantity)]

_process_sell_transaction(t, pos, funds, cache, files, rates, log) ==
    LET v == Value(t, cache, files, rates)
        fund_source == FundSource("sell", t.symbol, v.usd_value, t.date,
                                  NextTransactionId(funds), Len(log) + 1)
    IN [usd_value |-> v.usd_value,
        cache |-> v.cache,
        read |-> v.read,
        funds |-> Append(funds, fund_source),
        created |-> Append(log, fund_source),
        positions |-> ApplySell(pos, t.symbol, t.quantity)]

_process_buy_transaction(t, pos, funds, cache, files, rates, log) ==
    LET v == Value(t, cache, files, rates)
    IN [usd_value |-> v.usd_value,
        cache |-> v.cache,
        read |-> v.read,
        funds |-> funds,
        created |-> log,
        positions |-> ApplyBuy(pos, t.symbol, t.quantity, v.currency, v.total_value)]

Lower(tag) ==
    IF tag = "RSU" THEN "rsu" ELSE IF tag = "ESPP" THEN "espp"
    ELSE IF tag = "PSU" THEN "psu" ELSE "funds"

_process_employment_transaction(t, pos, funds, cache, files, rates, log) ==
    LET v == Value(t, cache, files, rates)
        fund_source == FundSource(Lower(t.source), t.symbol, v.usd_value, t.date,
                                  NextTransactionId(funds), Len(log) + 1)
    IN [usd_value |-> v.usd_value,
        cache |-> v.cache,
        read |-> v.read,
        funds |-> Append(funds, fund_source),
        created |-> Append(log, fund_source),
        positions |-> ApplyBuy(pos, t.symbol, t.quantity, v.currency, v.total_value)]

----------------------------------------------------------------------------
(* process_transactions *)

\* mutant: buys sort before sells
TransactionType_Swapped(t) == IF t.transaction = "sell" THEN 1 ELSE 0

\* df['transaction_type'] = df['transaction'].map({'sell': 0, 'buy': 1})
TransactionType(t) == IF t.transaction = "sell" THEN 0 ELSE 1

\* the sort key of df.sort_values(['date', 'transaction_type'])
KeyLeq(a, b) ==
    \/ a.date < b.date
    \/ a.date = b.date /\ TransactionType(a) <= TransactionType(b)

\* sort_values on two columns is a stable lexicographic sort
InsertByKey(s, t) ==
    LET k == Cardinality({i \in 1 .. Len(s) : KeyLeq(s[i], t)})
    IN SubSeq(s, 1, k) \o <<t>> \o SubSeq(s, k + 1, Len(s))

\* mutant: the frame is left in file order
SortValues_FileOrder(s) == s

RECURSIVE SortValues(_)
SortValues(s) ==
    IF s = <<>> THEN <<>>
    ELSE InsertByKey(SortValues(SubSeq(s, 1, Len(s) - 1)), s[Len(s)])

Edge(source, target, value, t, type, from_symbol) ==
    [source |-> source, target |-> target, value |-> value, date |-> t.date, type |-> type,
     symbol |-> t.symbol, quantity |-> t.quantity, price |-> t.price,
     from_symbol |-> from_symbol]

\* mutant: only the first allocation tuple is recorded
FundsEdges_FirstOnly(allocated, map, t) ==
    IF allocated = <<>> THEN <<>>
    ELSE <<Edge(map[Head(allocated)[1]], map[t.symbol], Head(allocated)[2], t, "Funds",
                Head(allocated)[1])>>

\* for source_symbol, amount in allocated: ... self.flow_data.append({...})
RECURSIVE FundsEdges(_, _, _)
FundsEdges(allocated, map, t) ==
    IF allocated = <<>> THEN <<>>
    ELSE <<Edge(map[Head(allocated)[1]], map[t.symbol], Head(allocated)[2], t, "Funds",
                Head(allocated)[1])>>
         \o FundsEdges(Tail(allocated), map, t)

\* mutant: the compensation branch also records the discarded allocation
CompensationFlow_WithAllocations(flow, map, t, usd_value, allocated) ==
    Append(flow, Edge(map[t.source \o " Compensation"], map[t.symbol], usd_value, t, t.source,
                      t.source \o " Compensation"))
    \o FundsEdges(allocated, map, t)

\* the compensation branch: one edge for the full amount; `allocated` is not used
CompensationFlow(flow, map, t, usd_value, allocated) ==
    Append(flow, Edge(map[t.source \o " Compensation"], map[t.symbol], usd_value, t, t.source,
                      t.source \o " Compensation"))

\* outcome: how the call ended.  No method of the tracker raises on its
\* arguments, and the two try blocks swallow every exception: each call returns.
\* flagged: whether the call reported its transaction as an anomaly.  The
\* handlers print nothing, log nothing and record nothing besides their effects.
Locals(op, t, required_amount, usd_value, allocated) ==
    [op |-> op, symbol |-> t.symbol, source |-> t.source, date |-> t.date,
     quantity |-> t.quantity, price |-> t.price,
     required_amount |-> required_amount, usd_value |-> usd_value, allocated |-> allocated,
     outcome |-> "returned", flagged |-> FALSE]

NoRow == Row("", "", 0, 0, 0, "")

\* ghost: one invocation _allocate_funds(required_amount, symbol, date)
Invocation(t, required_amount) ==
    [symbol |-> t.symbol, date |-> t.date, required_amount |-> required_amount]

\* one iteration of the loop over df, on row t
ReplayRow(t) ==
    LET reg == _add_node(Registry(node_labels, node_colors, node_map), t.symbol)
    IN IF t.transaction = "sell"
       THEN LET r == _process_sell_transaction(t, positions, available_funds, currency_cache,
                                               stock_files, exchange_rates, created)
            IN /\ positions' = r.positions
               /\ available_funds' = r.funds
               /\ created' = r.created
               /\ currency_cache' = r.cache
               /\ file_reads' = CountRead(file_reads, t.symbol, r.read)
               /\ node_labels' = reg.labels
               /\ node_colors' = reg.colors
               /\ node_map' = reg.map
               /\ flow_data' = flow_data
               /\ allocations' = allocations
               /\ ret' = Locals("sell", t, 0, r.usd_value, <<>>)
       ELSE IF t.transaction = "buy" /\ t.source \in CompensationTags
       THEN LET r == _process_buy_transaction(t, positions, available_funds, currency_cache,
                                              stock_files, exchange_rates, created)
                a == _allocate_funds(r.funds, r.usd_value)
                source_label == t.source \o " Compensation"
                reg2 == RegisterLabel(reg, source_label, CompensationColor)
            IN /\ positions' = r.positions
               /\ created' = r.created
               /\ available_funds' = a.funds
               /\ currency_cache' = r.cache
               /\ file_reads' = CountRead(file_reads, t.symbol, r.read)
               /\ node_labels' = reg2.labels
               /\ node_colors' = reg2.colors
               /\ node_map' = reg2.map
               /\ flow_data' = CompensationFlow(flow_data, reg2.map, t, r.usd_value,
                                                a.allocated)
               /\ allocations' = Append(allocations, Invocation(t, r.usd_value))
               /\ ret' = Locals("compensation", t, r.usd_value, r.usd_value, a.allocated)
       ELSE LET r == _process_buy_transaction(t, positions, available_funds, currency_cache,
                                              stock_files, exchange_rates, created)
                a == _allocate_funds(r.funds, r.usd_value)
                \* self.node_map[source_symbol] raises KeyError for an unregistered
                \* label: the edges before it have been appended
                unregistered == {i \in 1 .. Len(a.allocated) :
                                    a.allocated[i][1] \notin DOMAIN reg.map}
                looked_up == IF unregistered = {} THEN a.allocated
                             ELSE SubSeq(a.allocated, 1,
                                         (CHOOSE i \in unregistered :
                                              \A j \in unregistered : i <= j) - 1)
            IN /\ positions' = r.positions
               /\ created' = r.created
               /\ available_funds' = a.funds
               /\ currency_cache' = r.cache
               /\ file_reads' = CountRead(file_reads, t.symbol, r.read)
               /\ node_labels' = reg.labels
               /\ node_colors' = reg.colors
               /\ node_map' = reg.map
               /\ flow_data' = flow_data \o FundsEdges(looked_up, reg.map, t)
               /\ allocations' = Append(allocations, Invocation(t, r.usd_value))
               /\ ret' = [Locals("buy", t, r.usd_value, r.usd_value, a.allocated)
                           EXCEPT !.outcome = IF unregistered = {} THEN "returned"
                                              ELSE "raised"]

\* EURUSD=X.csv: a close of 1.2 on day 1, no row for day 2
RateFile == [readable |-> TRUE, close |-> [d \in {1} |-> 12]]

\* the tracker after __init__: rates loaded from EURUSD=X.csv, one node
Constructed ==
    /\ positions = <<>>
    /\ available_funds = <<>>
    /\ flow_data = <<>>
    /\ node_labels = <<"Initial Cash">>
    /\ node_colors = <<InitialCashColor>>
    /\ node_map = [l \in {"Initial Cash"} |-> 0]
    /\ currency_cache = <<>>
    /\ exchange_rates = _load_exchange_rates(RateFile)
    /\ stock_files = [s \in Symbols |-> IF s = "MSFT" THEN "EUR" ELSE "USD"]
    /\ file_reads = [s \in Symbols |-> 0]
    /\ dividends = [s \in Symbols |-> {}]
    /\ attributed = {}
    /\ raw_tx = NoRaw
    /\ today = 0
    /\ allocations = <<>>
    /\ created = <<>>
    /\ ret = Locals("", NoRow, 0, 0, <<>>)

\* The file is already in replay order: each row is read as it is replayed.
Init ==
    /\ Constructed
    /\ rows = <<>>
    /\ df = <<>>
    /\ idx = 0
    /\ ncalls = 0
    /\ pc = "replay"

\* rows of RowSet are read, in replay order, until `bound` rows have been replayed
ReplayFrom(RowSet, bound) ==
    /\ pc = "replay"
    /\ ret.outcome = "returned"
    /\ idx = Len(df)
    /\ idx < bound
    /\ \E t \in RowSet :
        /\ idx > 0 => KeyLeq(df[idx], t)
        /\ rows' = Append(rows, t)
        /\ df' = Append(df, t)
        /\ idx' = idx + 1
        /\ ReplayRow(t)
    /\ UNCHANGED <<exchange_rates, stock_files, ncalls, pc, dividends, attributed, raw_tx,
                   today>>

process_transactions_row == ReplayFrom(Rows, MaxRows)

Next == process_transactions_row

Spec == Init /\ [][Next]_vars

----------------------------------------------------------------------------
(* Long replays over a narrow family of rows: unit-price sells and plain buys *)

FifoRows ==
    {Row("sell", s, d, 1, 10, "Funds") : s \in Symbols, d \in Dates}
    \cup {Row("buy", "AAPL", d, q, 10, "Funds") : d \in Dates, q \in {1, 2}}

process_transactions_long == ReplayFrom(FifoRows, MaxDeep)

NextFifo == process_transactions_long

SpecFifo == Init /\ [][NextFifo]_vars

----------------------------------------------------------------------------
(* process_transactions on a file in any order: read, sort, replay *)

FileRows ==
    {Row(tt, s, d, 1, 10, "Funds") : tt \in {"sell", "buy"}, s \in Symbols, d \in Dates}

RECURSIVE SeqsUpTo(_, _)
SeqsUpTo(S, n) ==
    IF n = 0 THEN {<<>>}
    ELSE LET shorter == SeqsUpTo(S, n - 1)
         IN shorter \cup {Append(q, x) : q \in shorter, x \in S}

InitSort ==
    /\ Constructed
    /\ rows \in SeqsUpTo(FileRows, MaxFile)
    /\ df = <<>>
    /\ idx = 0
    /\ ncalls = 0
    /\ pc = "file"

\* df = pd.read_csv(...); df.sort_values(['date', 'transaction_type']).reset_index(drop=True)
process_transactions_sort ==
    /\ pc = "file"
    /\ df' = SortValues(rows)
    /\ pc' = "replay"
    /\ UNCHANGED <<positions, available_funds, flow_data, node_labels, node_colors, node_map,
                   currency_cache, exchange_rates, stock_files, file_reads, rows, idx, ncalls,
                   created, ret, dividends, attributed, raw_tx,
                   today, allocations>>

\* mutant: the loop steps over the row that follows the one it replays
process_transactions_next_SkipsRow ==
    /\ pc = "replay"
    /\ ret.outcome = "returned"
    /\ idx < Len(df)
    /\ idx' = IF idx + 2 <= Len(df) THEN idx + 2 ELSE idx + 1
    /\ ReplayRow(df[idx + 1])
    /\ UNCHANGED <<exchange_rates, stock_files, rows, df, ncalls, pc, dividends, attributed,
                   raw_tx,
                   today>>

\* for idx, transaction in df.iterrows()
process_transactions_next ==
    /\ pc = "replay"
    /\ ret.outcome = "returned"
    /\ idx < Len(df)
    /\ idx' = idx + 1
    /\ ReplayRow(df[idx + 1])
    /\ UNCHANGED <<exchange_rates, stock_files, rows, df, ncalls, pc, dividends, attributed,
                   raw_tx,
                   today>>

NextSort == process_transactions_sort \/ process_transactions_next

SpecSort == InitSort /\ [][NextSort]_vars

\* the file has been read and sorted
Sorted == pc = "file" /\ pc' = "replay"

\* the loop over df.iterrows() goes on to its next row
Iterates == pc = "replay" /\ ret.outcome = "returned" /\ idx < Len(df) /\ idx' = idx + 1

\* process_transactions is one synchronous call: once started, the read, the
\* sort and every iteration of the loop are taken. Sorted and Iterates are
\* enabled exactly when process_transactions_sort and process_transactions_next are.
SpecSortLive == InitSort /\ [][NextSort]_vars /\ WF_pc(Sorted) /\ WF_idx(Iterates)

----------------------------------------------------------------------------
(* Direct calls of the tracker's methods, as the unit tests make them *)

UnitRows ==
    {Row("sell", s, 1, qp[1], qp[2], "Funds") : s \in Symbols, qp \in QtyPrice}
    \cup {Row("buy", "MSFT", 1, 1, 10, k) : k \in CompensationTags}
    \cup {Row("buy", "AAPL", 2, 2, 10, "RSU"), Row("buy", "AAPL", 1, 1, 10, "Funds")}

RequiredAmounts == {-10, 0, 10, 15, 20, 30, 40}

InitUnit ==
    /\ Constructed
    /\ rows = <<>>
    /\ df = <<>>
    /\ idx = 0
    /\ ncalls = 0
    /\ pc = "unit"

Call(r, op, t) ==
    /\ positions' = r.positions
    /\ available_funds' = r.funds
    /\ currency_cache' = r.cache
    /\ file_reads' = CountRead(file_reads, t.symbol, r.read)
    /\ created' = r.created
    /\ ncalls' = ncalls + 1
    /\ ret' = Locals(op, t, 0, r.usd_value, <<>>)
    /\ UNCHANGED <<flow_data, node_labels, node_colors, node_map, exchange_rates, stock_files,
                   rows, df, idx, pc, dividends, attributed, raw_tx,
                   today, allocations>>

call_process_sell_transaction ==
    /\ pc = "unit"
    /\ ncalls < MaxCalls
    /\ \E t \in UnitRows :
        /\ t.transaction = "sell"
        /\ Call(_process_sell_transaction(t, positions, available_funds, currency_cache,
                                          stock_files, exchange_rates, created), "sell", t)

call_process_buy_transaction ==
    /\ pc = "unit"
    /\ ncalls < MaxCalls
    /\ \E t \in UnitRows :
        /\ t.transaction = "buy"
        /\ t.source = "Funds"
        /\ Call(_process_buy_transaction(t, positions, available_funds, currency_cache,
                                         stock_files, exchange_rates, created), "buy", t)

call_process_employment_transaction ==
    /\ pc = "unit"
    /\ ncalls < MaxCalls
    /\ \E t \in UnitRows :
        /\ t.source \in CompensationTags
        /\ Call(_process_employment_transaction(t, positions, available_funds,
                                                currency_cache, stock_files, exchange_rates,
                                                created),
                "employment", t)

call_allocate_funds ==
    /\ pc = "unit"
    /\ ncalls < MaxCalls
    /\ \E required_amount \in RequiredAmounts :
        LET a == _allocate_funds(available_funds, required_amount)
        IN /\ available_funds' = a.funds
           /\ ret' = Locals("allocate", NoRow, required_amount, 0, a.allocated)
           /\ allocations' = Append(allocations, Invocation(NoRow, required_amount))
    /\ ncalls' = ncalls + 1
    /\ UNCHANGED <<positions, flow_data, node_labels, node_colors, node_map, currency_cache,
                   exchange_rates, stock_files, file_reads, rows, df, idx, pc, created,
                   dividends, attributed, raw_tx,
                   today>>

NextUnit ==
    \/ call_process_sell_transaction
    \/ call_process_buy_transaction
    \/ call_process_employment_transaction
    \/ call_allocate_funds

SpecUnit == InitUnit /\ [][NextUnit]_vars

----------------------------------------------------------------------------
(* The node registry: direct calls of _add_node, as test_add_node and         *)
(* test_add_node_duplicate make them, between the rows of a replay            *)

MaxNodes == 3     \* rows replayed, and direct calls of _add_node (SpecRegistry)

RegistryRows ==
    {Row("sell", s, 1, 1, 10, "Funds") : s \in Symbols}
    \cup {Row("buy", s, 1, 1, 10, "Funds") : s \in Symbols}
    \cup {Row("buy", "MSFT", 1, 1, 10, k) : k \in CompensationTags}

RegistryLabels == Symbols \cup {"Initial Cash", "RSU Compensation"}

NodeLocals(symbol, node_idx) ==
    [op |-> "add_node", symbol |-> symbol, node_idx |-> node_idx, outcome |-> "returned"]

process_transactions_registry == ReplayFrom(RegistryRows, MaxNodes)

\* node_idx = tracker._add_node(symbol)
call_add_node ==
    /\ pc = "replay"
    /\ ncalls < MaxNodes
    /\ \E symbol \in RegistryLabels :
        LET reg == _add_node(Registry(node_labels, node_colors, node_map), symbol)
        IN /\ node_labels' = reg.labels
           /\ node_colors' = reg.colors
           /\ node_map' = reg.map
           /\ ret' = NodeLocals(symbol, reg.map[symbol])
    /\ ncalls' = ncalls + 1
    /\ UNCHANGED <<positions, available_funds, flow_data, currency_cache, exchange_rates,
                   stock_files, file_reads, dividends, attributed, raw_tx, today, allocations,
                   rows, df, idx, pc, created>>

NextRegistry == process_transactions_registry \/ call_add_node

SpecRegistry == Init /\ [][NextRegistry]_vars

----------------------------------------------------------------------------
(* Currency resolution and conversion: direct calls on trackers constructed   *)
(* over different EURUSD=X.csv files, while the downloader rewrites artifacts *)

MaxLookups == 3   \* direct calls of the currency methods (SpecCurrency)

RateDates == 1 .. 3
Amounts == {10, 20}

\* the Close column of EURUSD=X.csv on day d, in tenths: 1.2, 1.3, 1.4
Close(d) == 11 + d

\* EURUSD=X.csv: unreadable, or readable with rows for none, some or all of days 1 and 3
RateFiles ==
    {[readable |-> FALSE, close |-> <<>>]}
    \cup {[readable |-> TRUE, close |-> [d \in D |-> Close(d)]] : D \in SUBSET {1, 3}}

CurrencyLocals(op, symbol, amount, from_currency, date, currency, usd_value, read) ==
    [op |-> op, symbol |-> symbol, amount |-> amount, from_currency |-> from_currency,
     date |-> date, currency |-> currency, usd_value |-> usd_value, read |-> read,
     outcome |-> "returned"]

InitCurrency ==
    /\ positions = <<>>
    /\ available_funds = <<>>
    /\ flow_data = <<>>
    /\ node_labels = <<"Initial Cash">>
    /\ node_colors = <<InitialCashColor>>
    /\ node_map = [l \in {"Initial Cash"} |-> 0]
    /\ currency_cache = <<>>
    /\ \E file \in RateFiles : exchange_rates = _load_exchange_rates(file)
    /\ stock_files \in [Symbols -> FileStates]
    /\ file_reads = [s \in Symbols |-> 0]
    /\ dividends = [s \in Symbols |-> {}]
    /\ attributed = {}
    /\ raw_tx = NoRaw
    /\ today = 0
    /\ allocations = <<>>
    /\ created = <<>>
    /\ ret = CurrencyLocals("", "", 0, "", 0, "", 0, FALSE)
    /\ rows = <<>>
    /\ df = <<>>
    /\ idx = 0
    /\ ncalls = 0
    /\ pc = "currency"

call_get_stock_currency ==
    /\ pc = "currency"
    /\ ncalls < MaxLookups
    /\ \E symbol \in Symbols :
        LET r == _get_stock_currency(currency_cache, stock_files, symbol)
        IN /\ currency_cache' = r.cache
           /\ file_reads' = CountRead(file_reads, symbol, r.read)
           /\ ret' = CurrencyLocals("get_stock_currency", symbol, 0, "", 0, r.currency, 0, r.read)
    /\ ncalls' = ncalls + 1
    /\ UNCHANGED <<positions, available_funds, flow_data, node_labels, node_colors, node_map,
                   exchange_rates, stock_files, rows, df, idx, pc, created, dividends,
                   attributed, raw_tx,
                   today, allocations>>

call_eur_to_usd ==
    /\ pc = "currency"
    /\ ncalls < MaxLookups
    /\ \E amount_eur \in Amounts, date \in RateDates :
        ret' = CurrencyLocals("eur_to_usd", "", amount_eur, "EUR", date, "",
                              _eur_to_usd(exchange_rates, amount_eur, date), FALSE)
    /\ ncalls' = ncalls + 1
    /\ UNCHANGED <<positions, available_funds, flow_data, node_labels, node_colors, node_map,
                   currency_cache, exchange_rates, stock_files, file_reads, rows, df, idx, pc,
                   created, dividends, attributed, raw_tx,
                   today, allocations>>

call_to_usd ==
    /\ pc = "currency"
    /\ ncalls < MaxLookups
    /\ \E amount \in Amounts, from_currency \in Currencies \cup {"nan"}, date \in RateDates :
        ret' = CurrencyLocals("to_usd", "", amount, from_currency, date, "",
                              _to_usd(exchange_rates, amount, from_currency, date), FALSE)
    /\ ncalls' = ncalls + 1
    /\ UNCHANGED <<positions, available_funds, flow_data, node_labels, node_colors, node_map,
                   currency_cache, exchange_rates, stock_files, file_reads, rows, df, idx, pc,
                   created, dividends, attributed, raw_tx,
                   today, allocations>>

\* The files under resources/ change while the tracker lives: update_stock_data
\* creates or extends <symbol>.csv, and a file can be replaced or removed.
stock_file_changes ==
    /\ pc = "currency"
    /\ \E symbol \in Symbols, file \in FileStates :
        /\ stock_files[symbol] # file
        /\ stock_files' = [stock_files EXCEPT ![symbol] = file]
    /\ UNCHANGED <<positions, available_funds, flow_data, node_labels, node_colors, node_map,
                   currency_cache, exchange_rates, file_reads, rows, df, idx, ncalls, pc,
                   created, ret, dividends, attributed, raw_tx,
                   today, allocations>>

NextCurrency ==
    \/ call_get_stock_currency
    \/ call_eur_to_usd
    \/ call_to_usd
    \/ stock_file_changes

SpecCurrency == InitCurrency /\ [][NextCurrency]_vars

----------------------------------------------------------------------------
(* The sample portfolio of test_integration, replayed from a file holding its *)
(* four rows in any order, over artifacts that all resolve to USD             *)

ScenarioSymbols == {"AAPL", "MSFT", "WDAY"}

\* dates are written YYYYMMDD: the numbers order as the strings 'YYYY-MM-DD' do
ScenarioRows ==
    {Row("buy", "AAPL", 20200101, 10, 150, "Funds"),
     Row("sell", "AAPL", 20200201, 5, 160, "Funds"),
     Row("buy", "MSFT", 20200301, 8, 200, "Funds"),
     Row("buy", "WDAY", 20200401, 50, 180, "RSU")}

ScenarioFiles ==
    {f \in [1 .. Cardinality(ScenarioRows) -> ScenarioRows] :
        \A i, j \in DOMAIN f : i # j => f[i] # f[j]}

\* artifacts from which _get_stock_currency answers 'USD'
UsdFileStates == {"USD", "absent", "no_column", "empty", "unreadable"}

InitScenario ==
    /\ positions = <<>>
    /\ available_funds = <<>>
    /\ flow_data = <<>>
    /\ node_labels = <<"Initial Cash">>
    /\ node_colors = <<InitialCashColor>>
    /\ node_map = [l \in {"Initial Cash"} |-> 0]
    /\ currency_cache = <<>>
    /\ \E file \in RateFiles : exchange_rates = _load_exchange_rates(file)
    /\ stock_files \in [ScenarioSymbols -> UsdFileStates]
    /\ file_reads = [s \in ScenarioSymbols |-> 0]
    /\ dividends = [s \in ScenarioSymbols |-> {}]
    /\ attributed = {}
    /\ raw_tx = NoRaw
    /\ today = 0
    /\ allocations = <<>>
    /\ created = <<>>
    /\ ret = Locals("", NoRow, 0, 0, <<>>)
    /\ rows \in ScenarioFiles
    /\ df = <<>>
    /\ idx = 0
    /\ ncalls = 0
    /\ pc = "file"

SpecScenario == InitScenario /\ [][NextSort]_vars

----------------------------------------------------------------------------
(* DividendAttributor (spec 4.6), run after the replay.  The tracker's        *)
(* _calculate_dividends_received and _calculate_dividends_if_held are called  *)
(* by the tests and are not in src/: they are modelled from the spec.         *)

MaxDivRows == 3   \* rows of the transactions file (SpecDividend)

DividendDates == 2 .. 3

\* the Dividends column on day d, per share, in the symbol's currency: 10, 20
DividendPerShare(d) == 10 * (d - 1)

\* AAPL (USD) bought and sold on either day; MSFT (EUR) bought on day 1, sold on day 2
DividendRows ==
    {Row(tt, "AAPL", d, 1, 10, "Funds") : tt \in {"sell", "buy"}, d \in Dates}
    \cup {Row("buy", "MSFT", 1, 1, 10, "Funds"), Row("sell", "MSFT", 2, 1, 10, "Funds")}

\* PositionLedger.holdings_at: the quantity of the symbol after the rows of the
\* sorted frame dated before `date`, replayed as the ledger replays them
RECURSIVE holdings_at(_, _, _)
holdings_at(frame, symbol, date) ==
    IF frame = <<>> THEN 0
    ELSE LET t == frame[Len(frame)]
             before == holdings_at(SubSeq(frame, 1, Len(frame) - 1), symbol, date)
         IN IF t.symbol # symbol \/ t.date >= date THEN before
            ELSE IF t.transaction = "buy" THEN before + t.quantity
            ELSE IF before - t.quantity <= 0 THEN 0
            ELSE before - t.quantity

\* the shares of the symbol sold before `date`
RECURSIVE sold_before(_, _, _)
sold_before(frame, symbol, date) ==
    IF frame = <<>> THEN 0
    ELSE LET t == frame[Len(frame)]
             before == sold_before(SubSeq(frame, 1, Len(frame) - 1), symbol, date)
         IN IF t.symbol = symbol /\ t.date < date /\ t.transaction = "sell"
            THEN before + t.quantity
            ELSE before

Earliest(S) == CHOOSE d \in S : \A e \in S : d <= e

\* mutant: a dividend is credited for every event, held or not
RECURSIVE _calculate_dividends_received_CreditsUnheld(_, _, _, _, _, _, _)
_calculate_dividends_received_CreditsUnheld(symbol, events, frame, currency, rates, funds, log) ==
    IF events = {} THEN [total |-> 0, funds |-> funds, created |-> log]
    ELSE LET d == Earliest(events)
             shares == holdings_at(frame, symbol, d)
             usd == _to_usd(rates, shares * DividendPerShare(d), currency, d)
             fund_source == FundSource("dividend", symbol, usd, d, NextTransactionId(funds),
                                       Len(log) + 1)
             rest == _calculate_dividends_received_CreditsUnheld(
                         symbol, events \ {d}, frame, currency, rates,
                         Append(funds, fund_source), Append(log, fund_source))
         IN [rest EXCEPT !.total = @ + usd]

\* dividends_received(symbol): for each dividend event, in date order, the shares
\* held on its date times the dividend per share, in USD at that date, is added
\* to the pool as a FundSource of kind 'dividend' and to the total returned
RECURSIVE _calculate_dividends_received(_, _, _, _, _, _, _)
_calculate_dividends_received(symbol, events, frame, currency, rates, funds, log) ==
    IF events = {} THEN [total |-> 0, funds |-> funds, created |-> log]
    ELSE LET d == Earliest(events)
             shares == holdings_at(frame, symbol, d)
             usd == _to_usd(rates, shares * DividendPerShare(d), currency, d)
             fund_source == FundSource("dividend", symbol, usd, d, NextTransactionId(funds),
                                       Len(log) + 1)
             credited == shares > 0
             rest == _calculate_dividends_received(
                         symbol, events \ {d}, frame, currency, rates,
                         IF credited THEN Append(funds, fund_source) ELSE funds,
                         IF credited THEN Append(log, fund_source) ELSE log)
         IN IF credited THEN [rest EXCEPT !.total = @ + usd] ELSE rest

\* mutant: the hypothetical dividend is also counted on dates the symbol is held
RECURSIVE _calculate_dividends_if_held_CountsHeld(_, _, _, _, _)
_calculate_dividends_if_held_CountsHeld(symbol, events, frame, currency, rates) ==
    IF events = {} THEN 0
    ELSE LET d == Earliest(events)
             sold == sold_before(frame, symbol, d)
             rest == _calculate_dividends_if_held_CountsHeld(symbol, events \ {d}, frame,
                                                             currency, rates)
         IN IF sold > 0
            THEN rest + _to_usd(rates, sold * DividendPerShare(d), currency, d)
            ELSE rest

\* dividends_if_held(symbol): for each dividend event dated after a full exit
\* (nothing held, something sold), the shares sold times the dividend per share,
\* in USD at that date; nothing is added to the pool
RECURSIVE _calculate_dividends_if_held(_, _, _, _, _)
_calculate_dividends_if_held(symbol, events, frame, currency, rates) ==
    IF events = {} THEN 0
    ELSE LET d == Earliest(events)
             sold == sold_before(frame, symbol, d)
             rest == _calculate_dividends_if_held(symbol, events \ {d}, frame, currency, rates)
         IN IF holdings_at(frame, symbol, d) = 0 /\ sold > 0
            THEN rest + _to_usd(rates, sold * DividendPerShare(d), currency, d)
            ELSE rest

DividendLocals(op, symbol, usd_value) ==
    [op |-> op, symbol |-> symbol, usd_value |-> usd_value, outcome |-> "returned"]

InitDividend ==
    /\ positions = <<>>
    /\ available_funds = <<>>
    /\ flow_data = <<>>
    /\ node_labels = <<"Initial Cash">>
    /\ node_colors = <<InitialCashColor>>
    /\ node_map = [l \in {"Initial Cash"} |-> 0]
    /\ currency_cache = <<>>
    /\ exchange_rates = _load_exchange_rates(RateFile)
    /\ stock_files = [s \in Symbols |-> IF s = "MSFT" THEN "EUR" ELSE "USD"]
    /\ file_reads = [s \in Symbols |-> 0]
    /\ dividends \in [Symbols -> SUBSET DividendDates]
    /\ attributed = {}
    /\ raw_tx = NoRaw
    /\ today = 0
    /\ allocations = <<>>
    /\ created = <<>>
    /\ ret = Locals("", NoRow, 0, 0, <<>>)
    /\ rows \in SeqsUpTo(DividendRows, MaxDivRows)
    /\ df = <<>>
    /\ idx = 0
    /\ ncalls = 0
    /\ pc = "file"

\* the received dividends of a symbol are credited once, after the full replay
call_calculate_dividends_received ==
    /\ pc = "replay"
    /\ idx = Len(df)
    /\ \E symbol \in Symbols \ attributed :
        LET cur == _get_stock_currency(currency_cache, stock_files, symbol)
            r == _calculate_dividends_received(symbol, dividends[symbol], df, cur.currency,
                                               exchange_rates, available_funds, created)
        IN /\ available_funds' = r.funds
           /\ created' = r.created
           /\ currency_cache' = cur.cache
           /\ file_reads' = CountRead(file_reads, symbol, cur.read)
           /\ attributed' = attributed \cup {symbol}
           /\ ret' = DividendLocals("dividends_received", symbol, r.total)
    /\ UNCHANGED <<positions, flow_data, node_labels, node_colors, node_map, exchange_rates,
                   stock_files, dividends, rows, df, idx, ncalls, pc, raw_tx,
                   today, allocations>>

call_calculate_dividends_if_held ==
    /\ pc = "replay"
    /\ idx = Len(df)
    /\ \E symbol \in Symbols :
        LET cur == _get_stock_currency(currency_cache, stock_files, symbol)
        IN /\ currency_cache' = cur.cache
           /\ file_reads' = CountRead(file_reads, symbol, cur.read)
           /\ ret' = DividendLocals("dividends_if_held", symbol,
                                     _calculate_dividends_if_held(symbol, dividends[symbol], df,
                                                                  cur.currency, exchange_rates))
    /\ UNCHANGED <<positions, available_funds, flow_data, node_labels, node_colors, node_map,
                   exchange_rates, stock_files, dividends, attributed, rows, df, idx, ncalls,
                   pc, created, raw_tx,
                   today, allocations>>

NextDividend ==
    \/ process_transactions_sort
    \/ process_transactions_next
    \/ call_calculate_dividends_received
    \/ call_calculate_dividends_if_held

SpecDividend == InitDividend /\ [][NextDividend]_vars

----------------------------------------------------------------------------
(* transaction_parser (src/src/transaction_parser.py): raw records of the     *)
(* JSON exports are formatted one by one into the rows of transactions.csv.   *)
(* A string whose characters matter (a date, a comment) is the sequence of   *)
(* its characters.                                                            *)

MaxRaw == 2       \* raw records the parser's loop looks at (SpecParser)

Digits == {"0", "1", "2", "3", "4", "5", "6", "7", "8", "9"}

\* str.upper() on the characters the comments are written with
UpperChar(c) ==
    IF c = "r" THEN "R" ELSE IF c = "s" THEN "S" ELSE IF c = "u" THEN "U"
    ELSE IF c = "e" THEN "E" ELSE IF c = "p" THEN "P"
    ELSE c

Upper(str) == [i \in 1 .. Len(str) |-> UpperChar(str[i])]

\* `pattern in str`
Contains(str, pattern) ==
    \E i \in 1 .. Len(str) - Len(pattern) + 1 :
        SubSeq(str, i, i + Len(pattern) - 1) = pattern

\* transaction["type"].lower()
TypeLower(type) ==
    IF type \in {"BUY", "buy"} THEN "buy"
    ELSE IF type \in {"SELL", "sell"} THEN "sell"
    ELSE IF type = "DIVIDEND" THEN "dividend"
    ELSE type

\* transaction.get(key, default)
Get(transaction, key, default) ==
    IF key \in DOMAIN transaction THEN transaction[key] ELSE default

\* mutant: PSU is tested before ESPP and RSU
determine_transaction_source_PsuFirst(transaction) ==
    IF Get(transaction, "type", "") # "BUY" THEN "Funds"
    ELSE LET comment == Upper(Get(transaction, "comment", <<>>))
         IN IF Contains(comment, <<"P", "S", "U">>) THEN "PSU"
            ELSE IF Contains(comment, <<"E", "S", "P", "P">>) THEN "ESPP"
            ELSE IF Contains(comment, <<"R", "S", "U">>) THEN "RSU"
            ELSE "Funds"

determine_transaction_source(transaction) ==
    IF Get(transaction, "type", "") # "BUY" THEN "Funds"
    ELSE LET comment == Upper(Get(transaction, "comment", <<>>))
         IN IF Contains(comment, <<"R", "S", "U">>) THEN "RSU"
            ELSE IF Contains(comment, <<"E", "S", "P", "P">>) THEN "ESPP"
            ELSE IF Contains(comment, <<"P", "S", "U">>) THEN "PSU"
            ELSE "Funds"

required_keys == {"type", "symbol", "date", "quantity", "pricePerShare"}

\* f"{date_str[:4]}-{date_str[4:6]}-{date_str[6:]}"
FormattedDate(date_str) ==
    SubSeq(date_str, 1, 4) \o <<"-">> \o SubSeq(date_str, 5, 6) \o <<"-">>
    \o SubSeq(date_str, 7, Len(date_str))

\* mutant: the date is checked for its length only
format_transaction_LengthOnly(transaction) ==
    IF ~(required_keys \subseteq DOMAIN transaction) THEN <<>>
    ELSE LET date_str == transaction["date"]
         IN IF Len(date_str) # 8 THEN <<>>
            ELSE <<Row(TypeLower(transaction["type"]), transaction["symbol"],
                       FormattedDate(date_str), transaction["quantity"],
                       transaction["pricePerShare"],
                       determine_transaction_source(transaction))>>

\* format_transaction: <<>> stands for None, <<row>> for the formatted record
format_transaction(transaction) ==
    IF ~(required_keys \subseteq DOMAIN transaction) THEN <<>>
    ELSE LET date_str == transaction["date"]
         IN IF Len(date_str) # 8 \/ \E i \in 1 .. Len(date_str) : date_str[i] \notin Digits
            THEN <<>>
            ELSE <<Row(TypeLower(transaction["type"]), transaction["symbol"],
                       FormattedDate(date_str), transaction["quantity"],
                       transaction["pricePerShare"],
                       determine_transaction_source(transaction))>>

\* str(transaction["date"]) of the dates in the exports: 20230115, 202301,
\* '2023-01-15', '2023011x', 20231345
RawDates ==
    {<<"2", "0", "2", "3", "0", "1", "1", "5">>,
     <<"2", "0", "2", "3", "0", "1">>,
     <<"2", "0", "2", "3", "-", "0", "1", "-", "1", "5">>,
     <<"2", "0", "2", "3", "0", "1", "1", "x">>,
     <<"2", "0", "2", "3", "1", "3", "4", "5">>}

\* comments: '', 'rsu', 'ESPP', 'Psu', 'espp rsu', 'psu espp', 'rs u', 'bonus'
Comments ==
    {<<>>,
     <<"r", "s", "u">>,
     <<"E", "S", "P", "P">>,
     <<"P", "s", "u">>,
     <<"e", "s", "p", "p", " ", "r", "s", "u">>,
     <<"p", "s", "u", " ", "e", "s", "p", "p">>,
     <<"r", "s", " ", "u">>,
     <<"b", "o", "n", "u", "s">>}

ValidRaw ==
    [type |-> "BUY", symbol |-> "AAPL", date |-> <<"2", "0", "2", "3", "0", "1", "1", "5">>,
     quantity |-> 1, pricePerShare |-> 10]

Without(transaction, keys) == [k \in DOMAIN transaction \ keys |-> transaction[k]]

\* the raw records of the exports: dates of every shape, records lacking one
\* required key or three, types and amounts of every sign, BUY and SELL records
\* with each comment
RawRecords ==
    {[ValidRaw EXCEPT !.date = d] : d \in RawDates}
    \cup {Without(ValidRaw, {k}) : k \in required_keys}
    \cup {Without(ValidRaw, {"type", "quantity", "pricePerShare"})}
    \cup {[ValidRaw EXCEPT !.type = tt, !.quantity = qp[1], !.pricePerShare = qp[2]] :
             tt \in {"BUY", "SELL", "DIVIDEND"},
             qp \in {<<1, 10>>, <<1, 0>>, <<0, 10>>, <<-1, 10>>, <<1, -10>>}}
    \cup {[type |-> tt, symbol |-> "MSFT", date |-> ValidRaw.date, quantity |-> 1,
           pricePerShare |-> 10, comment |-> c] : tt \in {"BUY", "SELL"}, c \in Comments}

\* nothing parsed yet: all_formatted_transactions = []
InitParser ==
    /\ positions = <<>>
    /\ available_funds = <<>>
    /\ flow_data = <<>>
    /\ node_labels = <<>>
    /\ node_colors = <<>>
    /\ node_map = <<>>
    /\ currency_cache = <<>>
    /\ exchange_rates = <<>>
    /\ stock_files = [s \in Symbols |-> "absent"]
    /\ file_reads = [s \in Symbols |-> 0]
    /\ dividends = [s \in Symbols |-> {}]
    /\ attributed = {}
    /\ raw_tx = NoRaw
    /\ today = 0
    /\ allocations = <<>>
    /\ created = <<>>
    /\ ret = [op |-> "", source |-> "", formatted |-> <<>>, outcome |-> "returned"]
    /\ rows = <<>>
    /\ df = <<>>
    /\ idx = 0
    /\ ncalls = 0
    /\ pc = "parser"

\* one iteration of `for raw_tx in extract_transactions_from_file(json_file)`
parser_process_transactions ==
    /\ pc = "parser"
    /\ ncalls < MaxRaw
    /\ \E transaction \in RawRecords :
        LET formatted_tx == format_transaction(transaction)
        IN /\ raw_tx' = transaction
           /\ rows' = rows \o formatted_tx
           /\ ret' = [op |-> "format_transaction", source |-> "", formatted |-> formatted_tx,
                       outcome |-> "returned"]
    /\ ncalls' = ncalls + 1
    /\ UNCHANGED <<positions, available_funds, flow_data, node_labels, node_colors, node_map,
                   currency_cache, exchange_rates, stock_files, file_reads, dividends,
                   attributed, df, idx, pc, created,
                   today, allocations>>

\* a direct call of determine_transaction_source
call_determine_transaction_source ==
    /\ pc = "parser"
    /\ ncalls < MaxRaw
    /\ \E transaction \in RawRecords :
        /\ raw_tx' = transaction
        /\ ret' = [op |-> "determine_transaction_source",
                    source |-> determine_transaction_source(transaction),
                    formatted |-> <<>>, outcome |-> "returned"]
    /\ ncalls' = ncalls + 1
    /\ UNCHANGED <<positions, available_funds, flow_data, node_labels, node_colors, node_map,
                   currency_cache, exchange_rates, stock_files, file_reads, dividends,
                   attributed, rows, df, idx, pc, created,
                   today, allocations>>

\* extract_transactions_from_file on a file that is missing or is not JSON: the
\* warning is printed and the file yields no record
parser_skip_file ==
    /\ pc = "parser"
    /\ ncalls < MaxRaw
    /\ ncalls' = ncalls + 1
    /\ ret' = [op |-> "extract_transactions_from_file", source |-> "", formatted |-> <<>>,
                outcome |-> "returned"]
    /\ UNCHANGED <<positions, available_funds, flow_data, node_labels, node_colors, node_map,
                   currency_cache, exchange_rates, stock_files, file_reads, dividends,
                   attributed, raw_tx, rows, df, idx, pc, created,
                   today, allocations>>

NextParser ==
    \/ parser_process_transactions
    \/ call_determine_transaction_source
    \/ parser_skip_file

SpecParser == InitParser /\ [][NextParser]_vars

----------------------------------------------------------------------------
(* download_stock_history (src/src/download_stock_history.py): dates are day  *)
(* numbers, so that `+ timedelta(days=1)` is + 1. A data file                 *)
(* resources/<symbol>.csv is a record: kind says what pd.read_csv finds,      *)
(* headers counts the header lines written, dates lists the Date cells of the *)
(* data lines in file order.                                                  *)

MaxDay == 3       \* the last day date.today() reaches (SpecDownload)
MaxRuns == 2      \* calls made against the data files (SpecDownload)

FirstToday == 2

DataFile(kind, headers, dates) == [kind |-> kind, headers |-> headers, dates |-> dates]

\* what a run may find before the downloader has written anything: no file, a
\* file of 0 bytes, a file with the header line only, a file whose header has no
\* 'Date' column, a file whose Date column holds a cell that is not a date
InitialDataFiles ==
    {DataFile("absent", 0, <<>>), DataFile("empty", 0, <<>>), DataFile("data", 1, <<>>),
     DataFile("no_date_column", 1, <<1>>), DataFile("bad_dates", 1, <<1>>)}

LastDate(dates) == CHOOSE m \in {dates[i] : i \in 1 .. Len(dates)} :
                       \A i \in 1 .. Len(dates) : dates[i] <= m

\* transactions_df[transactions_df['symbol'] == ticker_symbol]['date'].min()
EarliestTransaction(transactions_df, ticker_symbol) ==
    LET ds == {transactions_df[i].date : i \in {j \in 1 .. Len(transactions_df) :
                                                  transactions_df[j].symbol = ticker_symbol}}
    IN CHOOSE m \in ds : \A d \in ds : m <= d

Returned(value) == [outcome |-> "returned", value |-> value]
Raised == [outcome |-> "raised", value |-> 0]

\* mutant: an existing file restarts from its latest date, not the day after
get_start_date_SameDay(output_csv, transactions_df, ticker_symbol) ==
    IF output_csv.kind \in {"no_date_column", "bad_dates"} THEN Raised
    ELSE IF output_csv.kind = "data" /\ output_csv.dates # <<>>
    THEN Returned(LastDate(output_csv.dates))
    ELSE Returned(EarliestTransaction(transactions_df, ticker_symbol))

\* get_start_date. pd.read_csv(parse_dates=['Date']) raises EmptyDataError on
\* a file of 0 bytes (caught) and ValueError on a header without 'Date' (not
\* caught); a Date column it cannot parse stays text and
\* existing_df['Date'].max().date() raises AttributeError or TypeError (not
\* caught).
get_start_date(output_csv, transactions_df, ticker_symbol) ==
    IF output_csv.kind \in {"no_date_column", "bad_dates"} THEN Raised
    ELSE IF output_csv.kind = "data" /\ output_csv.dates # <<>>
    THEN Returned(LastDate(output_csv.dates) + 1)
    ELSE Returned(EarliestTransaction(transactions_df, ticker_symbol))

\* ticker.history(start, end): rows for days of [start, end), in date order
Histories(start, end) ==
    {h \in SeqsUpTo(start .. end - 1, 2) : \A i \in 1 .. Len(h) - 1 : h[i] < h[i + 1]}

\* start_date as update_stock_data receives it: a date, a 'YYYY-MM-DD' string,
\* a string that is not a date, an object of another type
StartDates(days) ==
    {[type |-> tp, day |-> d] : tp \in {"date", "str"}, d \in days}
    \cup {[type |-> "badstr", day |-> 0], [type |-> "other", day |-> 0]}

\* output_df.to_csv(output_csv, mode='a', header=should_write_header)
AppendHistory(output_csv, history) ==
    LET should_write_header == output_csv.kind \in {"absent", "empty"}
    IN DataFile(IF should_write_header THEN "data" ELSE output_csv.kind,
                output_csv.headers + (IF should_write_header THEN 1 ELSE 0),
                output_csv.dates \o history)

\* mutant: an empty history is written like any other
update_stock_data_WritesEmpty(output_csv, start_date, now, fetch) ==
    IF start_date.type \in {"badstr", "other"} THEN output_csv
    ELSE IF start_date.day >= now THEN output_csv
    ELSE IF fetch.kind = "raises" THEN output_csv
    ELSE AppendHistory(output_csv, fetch.dates)

\* update_stock_data: the file it leaves. fetch is what get_stock_history and
\* get_ticker_info do: [kind |-> "raises"] or [kind |-> "history", dates |-> h]
update_stock_data(output_csv, start_date, now, fetch) ==
    IF start_date.type \in {"badstr", "other"} THEN output_csv
    ELSE IF start_date.day >= now THEN output_csv
    ELSE IF fetch.kind = "raises" THEN output_csv
    ELSE IF fetch.dates = <<>> THEN output_csv
    ELSE AppendHistory(output_csv, fetch.dates)

Fetches(start_date, now) ==
    {[kind |-> "raises", dates |-> <<>>]}
    \cup {[kind |-> "history", dates |-> h] :
            h \in IF start_date.type \in {"date", "str"} /\ start_date.day < now
                  THEN Histories(start_date.day, now) ELSE {<<>>}}

DownloadLocals(op, symbol, result) ==
    [op |-> op, symbol |-> symbol, outcome |-> result.outcome, value |-> result.value]

\* update_stock_data has no raise and no statement that can fail outside its
\* try blocks: it returns None
UpdateLocals(symbol, start_date, fetch) ==
    [op |-> "update_stock_data", symbol |-> symbol, outcome |-> "returned", value |-> 0,
     start_date |-> start_date, fetch |-> fetch]

\* transactions.csv as download_stock_history reads it: symbol and date matter
TransactionOn(s, d) == Row("buy", s, d, 1, 10, "Funds")

\* the frames of test_environment's shape (AAPL, another ticker, AAPL on an
\* earlier date) and shorter ones
DownloadFrames ==
    {<<TransactionOn("AAPL", 2), TransactionOn("MSFT", 2), TransactionOn("AAPL", 1)>>,
     <<TransactionOn("AAPL", 1), TransactionOn("AAPL", 2)>>,
     <<TransactionOn("MSFT", 1), TransactionOn("AAPL", 2)>>,
     <<TransactionOn("MSFT", 2)>>}

TickersOf(transactions_df) == {transactions_df[i].symbol : i \in 1 .. Len(transactions_df)}

InitDownload ==
    /\ positions = <<>>
    /\ available_funds = <<>>
    /\ flow_data = <<>>
    /\ node_labels = <<>>
    /\ node_colors = <<>>
    /\ node_map = <<>>
    /\ currency_cache = <<>>
    /\ exchange_rates = <<>>
    /\ stock_files \in [Symbols -> InitialDataFiles]
    /\ file_reads = [s \in Symbols |-> 0]
    /\ dividends = [s \in Symbols |-> {}]
    /\ attributed = {}
    /\ raw_tx = NoRaw
    /\ today = FirstToday
    /\ allocations = <<>>
    /\ created = <<>>
    /\ ret = DownloadLocals("", "", Returned(0))
    /\ rows \in DownloadFrames
    /\ df = rows
    /\ idx = 0
    /\ ncalls = 0
    /\ pc = "download"

DownloadUnchanged ==
    UNCHANGED <<positions, available_funds, flow_data, node_labels, node_colors, node_map,
                currency_cache, exchange_rates, file_reads, dividends, attributed, raw_tx,
                rows, df, idx, pc, created, allocations>>

\* a direct call of get_start_date for a ticker of transactions.csv
call_get_start_date ==
    /\ pc = "download"
    /\ ncalls < MaxRuns
    /\ \E ticker_symbol \in TickersOf(df) :
        ret' = DownloadLocals("get_start_date", ticker_symbol,
                              get_start_date(stock_files[ticker_symbol], df, ticker_symbol))
    /\ ncalls' = ncalls + 1
    /\ UNCHANGED <<stock_files, today>>
    /\ DownloadUnchanged

\* a direct call of update_stock_data
call_update_stock_data ==
    /\ pc = "download"
    /\ ncalls < MaxRuns
    /\ \E ticker_symbol \in TickersOf(df), start_date \in StartDates(1 .. today) :
        \E fetch \in Fetches(start_date, today) :
            /\ stock_files' = [stock_files EXCEPT ![ticker_symbol] =
                                   update_stock_data(@, start_date, today, fetch)]
            /\ ret' = UpdateLocals(ticker_symbol, start_date, fetch)
    /\ ncalls' = ncalls + 1
    /\ UNCHANGED today
    /\ DownloadUnchanged

\* download_stock_history, one ticker of its loop: get_start_date, then
\* update_stock_data from that date; an exception of get_start_date ends the run
download_stock_history ==
    /\ pc = "download"
    /\ ncalls < MaxRuns
    /\ \E ticker_symbol \in TickersOf(df) :
        LET start == get_start_date(stock_files[ticker_symbol], df, ticker_symbol)
            start_date == [type |-> "date", day |-> start.value]
        IN IF start.outcome = "raised"
           THEN /\ ret' = DownloadLocals("download_stock_history", ticker_symbol, Raised)
                /\ UNCHANGED stock_files
           ELSE \E fetch \in Fetches(start_date, today) :
                /\ stock_files' = [stock_files EXCEPT ![ticker_symbol] =
                                       update_stock_data(@, start_date, today, fetch)]
                /\ ret' = DownloadLocals("download_stock_history", ticker_symbol, Returned(0))
    /\ ncalls' = ncalls + 1
    /\ UNCHANGED today
    /\ DownloadUnchanged

\* midnight: date.today() moves on
day_passes ==
    /\ pc = "download"
    /\ today < MaxDay
    /\ today' = today + 1
    /\ UNCHANGED <<stock_files, ncalls, ret>>
    /\ DownloadUnchanged

NextDownload ==
    \/ call_get_start_date
    \/ call_update_stock_data
    \/ download_stock_history
    \/ day_passes

SpecDownload == InitDownload /\ [][NextDownload]_vars

\* successive runs of download_stock_history and nothing else: the files are
\* written by the loop's own calls only
NextIncremental == download_stock_history \/ day_passes

SpecIncremental == InitDownload /\ [][NextIncremental]_vars

----------------------------------------------------------------------------
(* Properties *)

RECURSIVE SumAmounts(_)
SumAmounts(allocated) ==
    IF allocated = <<>> THEN 0 ELSE Head(allocated)[2] + SumAmounts(Tail(allocated))

RECURSIVE PrefixSum(_, _)
PrefixSum(funds, n) == IF n = 0 THEN 0 ELSE funds[n].amount_usd + PrefixSum(funds, n - 1)

\* an allocation made by a direct call of _allocate_funds
AllocateCall == ncalls' = ncalls + 1 /\ ret'.op = "allocate"

\* the pool as _allocate_funds walks it
Walked == SortByTransactionId(available_funds)

\* the pool objects an allocation step changed or removed
Drawn ==
    {i \in 1 .. Len(available_funds) :
        \A j \in 1 .. Len(available_funds') : available_funds'[j] # available_funds[i]}

NonStockNodes == {"Initial Cash"} \cup {k \o " Compensation" : k \in CompensationTags}

\* C1: after a plain (Funds) buy replayed by process_transactions, the amounts of
\* the tuples _allocate_funds returned, the 'Initial Cash' remainder included,
\* add up to the buy's USD value.
C1_Conservation ==
    ret.op = "buy" => SumAmounts(ret.allocated) = ret.usd_value

\* a plain buy financed by two pool sources and an 'Initial Cash' remainder
C1_Witness ==
    /\ ret.op = "buy"
    /\ Len(created) = 2
    /\ Len(ret.allocated) = 3
    /\ ret.allocated[1][2] > 0
    /\ ret.allocated[3] = <<"Initial Cash", ret.usd_value - ret.allocated[1][2] - ret.allocated[2][2]>>

\* C2: FIFO over histories — no step draws from a fund source while a fund source
\* constructed before it is left in the pool with a positive amount.
C2_FifoOverHistories ==
    [][\A i \in Drawn : \A j \in 1 .. Len(available_funds') :
          available_funds'[j].obj < available_funds[i].obj
              => available_funds'[j].amount_usd <= 0]_vars

\* C3: every FundSource gets a transaction_id greater than that of every
\* FundSource constructed before it, and no two sources in the pool share one.
C3_IncreasingIds ==
    /\ \A i, j \in 1 .. Len(created) :
          i < j => created[i].transaction_id < created[j].transaction_id
    /\ \A i, j \in 1 .. Len(available_funds) :
          i # j => available_funds[i].transaction_id # available_funds[j].transaction_id

\* C4: replaying a compensation buy (RSU, ESPP, PSU) leaves every fund source that
\* was in the pool with a positive amount in the pool, with its amount.
C4_CompensationBypassesAllocation ==
    [][(idx' = idx + 1 /\ ret'.op = "compensation")
          => \A i \in 1 .. Len(available_funds) :
                available_funds[i].amount_usd > 0
                    => \E j \in 1 .. Len(available_funds') :
                          available_funds'[j] = available_funds[i]]_vars

\* C5: after a compensation buy has been replayed, the pool holds a FundSource of
\* the matching kind, for the bought symbol, with the buy's full USD value.
C5_CompensationFundSourceAdded ==
    ret.op = "compensation"
        => \E i \in 1 .. Len(available_funds) :
              /\ available_funds[i].source_type = Lower(ret.source)
              /\ available_funds[i].symbol = ret.symbol
              /\ available_funds[i].amount_usd = ret.usd_value

\* C6: replaying a compensation buy of kind K appends exactly one edge, from the
\* node labelled '<K> Compensation' to the node of the bought symbol, with value
\* quantity x price in USD and type K; the edges before it are unchanged.
C6_CompensationEdge ==
    [][(idx' = idx + 1 /\ df'[idx'].transaction = "buy" /\ df'[idx'].source \in CompensationTags)
          => LET t == df'[idx']
                 e == flow_data'[Len(flow_data')]
             IN /\ Len(flow_data') = Len(flow_data) + 1
                /\ SubSeq(flow_data', 1, Len(flow_data)) = flow_data
                /\ e.source + 1 \in 1 .. Len(node_labels')
                /\ e.target + 1 \in 1 .. Len(node_labels')
                /\ node_labels'[e.source + 1] = t.source \o " Compensation"
                /\ node_labels'[e.target + 1] = t.symbol
                /\ e.value = _to_usd(exchange_rates, t.quantity * t.price,
                                     CurrencyOfFile(stock_files[t.symbol]), t.date)
                /\ e.type = t.source]_vars

\* a compensation buy in EUR replayed while the pool held a sell's proceeds
C6_Witness ==
    /\ ret.op = "compensation"
    /\ ret.symbol = "MSFT"
    /\ Len(ret.allocated) >= 1
    /\ ret.allocated[1][1] \in Symbols
    /\ Len(flow_data) >= 1
    /\ flow_data[Len(flow_data)].type = ret.source
    /\ flow_data[Len(flow_data)].value = ret.usd_value

\* the longest prefix of the walked pool whose amounts R covers in full
Covered(funds, R) ==
    CHOOSE n \in 0 .. Len(funds) :
        /\ PrefixSum(funds, n) <= R
        /\ \A m \in n + 1 .. Len(funds) : PrefixSum(funds, m) > R

\* C7: allocating R > 0 removes the longest prefix of the pool (in transaction_id
\* order) that R covers in full, leaves the next source with its amount less the
\* rest of R, and leaves every later source as it was.
C7_PartialConsumption ==
    [][(AllocateCall /\ ret'.required_amount > 0)
          => LET R == ret'.required_amount
                 k == Covered(Walked, R)
             IN available_funds' =
                    IF k = Len(Walked) THEN <<>>
                    ELSE <<[Walked[k + 1] EXCEPT !.amount_usd = @ - (R - PrefixSum(Walked, k))]>>
                         \o SubSeq(Walked, k + 2, Len(Walked))]_vars

\* C8: when the pool's total is below R, _allocate_funds returns every source in
\* transaction_id order with its full amount, then ('Initial Cash', R - total),
\* and empties the pool; otherwise every tuple it returns is a draw from a pool
\* source and none is the fallback.
C8_InitialCashFallback ==
    [][AllocateCall
          => LET R == ret'.required_amount
                 total == PrefixSum(Walked, Len(Walked))
                 out == ret'.allocated
             IN IF total < R
                THEN /\ available_funds' = <<>>
                     /\ out = [i \in 1 .. Len(Walked) + 1 |->
                                  IF i <= Len(Walked)
                                  THEN <<SourceNode(Walked[i]), Walked[i].amount_usd>>
                                  ELSE <<"Initial Cash", R - total>>]
                ELSE /\ Len(out) <= Len(Walked)
                     /\ \A i \in 1 .. Len(out) :
                           /\ out[i][1] = SourceNode(Walked[i])
                           /\ out[i][2] <= Walked[i].amount_usd]_vars

\* an allocation that used up a pool of two sources and fell back on Initial Cash
C8_Witness ==
    /\ ret.op = "allocate"
    /\ Len(created) = 2
    /\ Len(ret.allocated) = 3
    /\ ret.allocated[3][1] = "Initial Cash"
    /\ ret.allocated[3][2] > 0
    /\ available_funds = <<>>

Count(s, x) == Cardinality({i \in 1 .. Len(s) : s[i] = x})

\* C9: the frame replayed is the file's rows ordered by date, then sells before
\* buys, then file order; rows are replayed in that order, so when a buy has been
\* replayed every sell of the file dated that day or earlier has been credited.
C9_ReplayOrder ==
    pc = "replay"
        => /\ Len(df) = Len(rows)
           /\ \E pi \in [1 .. Len(df) -> 1 .. Len(rows)] :
                 /\ \A a, b \in 1 .. Len(df) : a # b => pi[a] # pi[b]
                 /\ \A a \in 1 .. Len(df) : df[a] = rows[pi[a]]
                 /\ \A a, b \in 1 .. Len(df) :
                       (a < b /\ df[a].date = df[b].date
                              /\ df[a].transaction = df[b].transaction) => pi[a] < pi[b]
           /\ \A a, b \in 1 .. Len(df) :
                 a < b => \/ df[a].date < df[b].date
                          \/ /\ df[a].date = df[b].date
                             /\ ~(df[a].transaction = "buy" /\ df[b].transaction = "sell")
           /\ idx > 0 => /\ ret.symbol = df[idx].symbol
                         /\ ret.date = df[idx].date
                         /\ ret.op = df[idx].transaction
           /\ (idx > 0 /\ df[idx].transaction = "buy")
                 => \A j \in 1 .. Len(rows) :
                       (rows[j].transaction = "sell" /\ rows[j].date <= df[idx].date)
                           => Count(SubSeq(df, 1, idx - 1), rows[j]) = Count(rows, rows[j])

\* a file with a buy ahead of a same-day sell: the buy was financed by that sell
C9_Witness ==
    /\ pc = "replay"
    /\ Len(rows) = 2
    /\ rows[1].transaction = "buy"
    /\ rows[2].transaction = "sell"
    /\ rows[1].date = rows[2].date
    /\ rows[1].symbol # rows[2].symbol
    /\ idx = 2
    /\ ret.op = "buy"
    /\ ret.allocated = <<<<rows[2].symbol, ret.usd_value>>>>

\* C10: in an allocation, a consumed source of kind 'sell' is labelled with the
\* sold symbol; a consumed source of any other kind is labelled 'Initial Cash' or
\* '<KIND> Compensation', never with a stock symbol.
C10_OriginLabels ==
    [][AllocateCall
          => \A i \in 1 .. Len(ret'.allocated) :
                i <= Len(Walked)
                    => IF Walked[i].source_type = "sell"
                       THEN ret'.allocated[i][1] = Walked[i].symbol
                       ELSE /\ ret'.allocated[i][1] \in NonStockNodes
                            /\ ret'.allocated[i][1] \notin Symbols]_vars

\* an allocation that consumed a compensation source and then a sell's proceeds
C10_Witness ==
    /\ ret.op = "allocate"
    /\ Len(created) = 2
    /\ created[1].source_type \in {"rsu", "espp", "psu"}
    /\ created[2].source_type = "sell"
    /\ Len(ret.allocated) >= 2
    /\ ret.allocated[1][1] = "Initial Cash"
    /\ ret.allocated[2][1] = created[2].symbol

\* a row of the frame has just been replayed
Replayed == idx' = idx + 1

\* C11: every position in the ledger has quantity > 0; replaying a sell of less
\* than the held quantity leaves the position with the difference (currency and
\* cost basis as they were), a sell of exactly the held quantity removes the
\* position, and no other position changes.
C11_PositionNonNegativity ==
    [][/\ \A s \in DOMAIN positions' : positions'[s].quantity > 0
       /\ (Replayed /\ ret'.op = "sell" /\ ret'.symbol \in DOMAIN positions
              /\ ret'.quantity <= positions[ret'.symbol].quantity)
             => LET s == ret'.symbol
                    held == positions[s].quantity
                IN /\ ret'.quantity < held
                        => /\ s \in DOMAIN positions'
                           /\ positions'[s] = [positions[s] EXCEPT !.quantity = held - ret'.quantity]
                   /\ ret'.quantity = held => s \notin DOMAIN positions'
                   /\ \A o \in DOMAIN positions \ {s} :
                         o \in DOMAIN positions' /\ positions'[o] = positions[o]]_vars

\* two shares bought, one sold: the position is left with one share
C11_Witness ==
    /\ ret.op = "sell"
    /\ ret.quantity = 1
    /\ ret.symbol \in DOMAIN positions
    /\ positions[ret.symbol].quantity = 1
    /\ idx = 2
    /\ df[1].transaction = "buy"
    /\ df[1].symbol = ret.symbol
    /\ df[1].quantity = 2

\* a sell of exactly the held quantity has emptied the ledger
C11_WitnessExact ==
    /\ ret.op = "sell"
    /\ idx = 2
    /\ df[1].transaction = "buy"
    /\ df[1].symbol = ret.symbol
    /\ df[1].quantity = ret.quantity
    /\ positions = <<>>

\* C12: after every replayed transaction, every fund source in the pool has an
\* amount greater than zero.
C12_PoolAmountsPositive ==
    \A i \in 1 .. Len(available_funds) : available_funds[i].amount_usd > 0

\* the edges a step appended
NewEdges == SubSeq(flow_data', Len(flow_data) + 1, Len(flow_data'))

AppendOnly ==
    /\ Len(flow_data') >= Len(flow_data)
    /\ SubSeq(flow_data', 1, Len(flow_data)) = flow_data

Min(a, b) == IF a <= b THEN a ELSE b

\* a replayed plain buy appended one edge per pool source it drew from, in the
\* order the pool is walked, each with the amount drawn, then one edge from
\* 'Initial Cash' for the remainder, if any
PlainBuyEdges ==
    LET R == ret'.usd_value
        total == PrefixSum(Walked, Len(Walked))
        n == Cardinality(Drawn)
        rem == IF R > total THEN R - total ELSE 0
        new == NewEdges
    IN /\ Len(new) = n + (IF rem > 0 THEN 1 ELSE 0)
       /\ \A i \in 1 .. Len(new) :
             /\ new[i].type = "Funds"
             /\ new[i].symbol = ret'.symbol
             /\ node_labels'[new[i].target + 1] = ret'.symbol
             /\ node_labels'[new[i].source + 1] = new[i].from_symbol
       /\ \A i \in 1 .. n :
             /\ new[i].from_symbol = SourceNode(Walked[i])
             /\ new[i].value = Min(Walked[i].amount_usd, R - PrefixSum(Walked, i - 1))
       /\ rem > 0 => /\ new[n + 1].from_symbol = "Initial Cash"
                      /\ new[n + 1].value = rem

C14_ZeroRequiredAmount ==
    [][(AllocateCall /\ ret'.required_amount = 0)
          => /\ ret'.allocated = <<>>
             /\ available_funds' = Walked
             /\ Len(available_funds') = Len(available_funds)
             /\ \A i \in 1 .. Len(available_funds) :
                   \E j \in 1 .. Len(available_funds') :
                         available_funds'[j] = available_funds[i]]_vars

\* _allocate_funds(0) has returned on a pool holding a positive and a zero amount
C14_Witness ==
    /\ ret.op = "allocate"
    /\ ret.required_amount = 0
    /\ ret.allocated = <<>>
    /\ Len(available_funds) = 2
    /\ \E i, j \in 1 .. 2 : available_funds[i].amount_usd > 0 /\ available_funds[j].amount_usd = 0

\* C15: a call of _allocate_funds with a negative required amount ends in an
\* error, not in a returned allocation list, and leaves the pool's sources and
\* amounts as they were.
C15_NegativeRequiredRejected ==
    [][(AllocateCall /\ ret'.required_amount < 0)
          => /\ ret'.outcome = "raised"
             /\ available_funds' = Walked]_vars

Abs(x) == IF x < 0 THEN -x ELSE x

\* the table dates chronologically nearest to d
NearestDates(rates, d) ==
    {k \in DOMAIN rates : \A j \in DOMAIN rates : Abs(k - d) <= Abs(j - d)}

\* the last call converted a EUR amount
EurConversion == ret.op \in {"eur_to_usd", "to_usd"} /\ ret.from_currency = "EUR"

\* C16: a EUR conversion on a non-empty rate table uses the stored rate of the
\* date when the table has it, and otherwise the rate of a table date nearest to
\* the date (either one on a tie).
C16_NearestDateRate ==
    (EurConversion /\ DOMAIN exchange_rates # {})
        => IF ret.date \in DOMAIN exchange_rates
           THEN ret.usd_value = (ret.amount * exchange_rates[ret.date]) \div 10
           ELSE \E k \in NearestDates(exchange_rates, ret.date) :
                   ret.usd_value = (ret.amount * exchange_rates[k]) \div 10

\* C17: a EUR conversion on an empty rate table ends in an error; it returns no
\* value.
C17_EmptyTableIsFatal ==
    (EurConversion /\ DOMAIN exchange_rates = {}) => ret.outcome = "raised"

\* a direct call of _get_stock_currency
GetCurrencyCall == ncalls' = ncalls + 1 /\ ret'.op = "get_stock_currency"

\* C18: every call of _get_stock_currency returns; a call for a symbol not yet
\* resolved returns the currency code in the artifact's Currency column when the
\* artifact is readable and has one, and 'USD' when the artifact is missing, has
\* no Currency column, has no row, or raises on read.
C18_CurrencyResolution ==
    [][GetCurrencyCall
          => /\ ret'.outcome = "returned"
             /\ ret'.symbol \notin DOMAIN currency_cache
                   => LET file == stock_files[ret'.symbol]
                      IN /\ file \in Currencies => ret'.currency = file
                         /\ file \in {"absent", "no_column", "empty", "unreadable"}
                               => ret'.currency = "USD"]_vars

\* the first call for a symbol whose artifact makes pd.read_csv raise returned 'USD'
C18_Witness ==
    /\ ret.op = "get_stock_currency"
    /\ ret.read
    /\ ncalls = 1
    /\ stock_files[ret.symbol] = "unreadable"
    /\ ret.currency = "USD"
    /\ ret.outcome = "returned"

\* C19: no symbol's artifact is read more than once; a call for a symbol already
\* resolved returns the memoized value without a read, whatever the artifact
\* holds by then; and a memoized value never changes, so that value is the one
\* the first call returned.
C19_Memoization ==
    [][/\ \A s \in Symbols : file_reads'[s] <= 1
       /\ \A s \in DOMAIN currency_cache :
             s \in DOMAIN currency_cache' /\ currency_cache'[s] = currency_cache[s]
       /\ GetCurrencyCall
             => IF ret'.symbol \in DOMAIN currency_cache
                THEN /\ ret'.currency = currency_cache[ret'.symbol]
                     /\ file_reads' = file_reads
                     /\ ~ret'.read
                ELSE /\ ret'.symbol \in DOMAIN currency_cache'
                     /\ currency_cache'[ret'.symbol] = ret'.currency
                     /\ file_reads'[ret'.symbol] = file_reads[ret'.symbol] + 1]_vars

\* a symbol resolved to the 'USD' fallback, its artifact then written with EUR,
\* and a later call that answered 'USD' from the cache
C19_Witness ==
    /\ ret.op = "get_stock_currency"
    /\ ~ret.read
    /\ ret.currency = "USD"
    /\ stock_files[ret.symbol] = "EUR"
    /\ file_reads[ret.symbol] = 1
    /\ ncalls = 2

\* the rate _eur_to_usd multiplies by: the table's rate for the date, else 1.1
LookedUpRate(rates, date) == IF date \in DOMAIN rates THEN rates[date] ELSE FallbackRate

\* C20: _to_usd returns the amount for 'USD', the amount times the rate
\* _eur_to_usd looks up for 'EUR', and the amount unchanged for any other code.
C20_ToUsd ==
    ret.op = "to_usd"
        => IF ret.from_currency = "USD" THEN ret.usd_value = ret.amount
           ELSE IF ret.from_currency = "EUR"
           THEN ret.usd_value = (ret.amount * LookedUpRate(exchange_rates, ret.date)) \div 10
           ELSE ret.usd_value = ret.amount

\* _to_usd has returned a GBP amount unchanged on a tracker whose table has rates
C20_Witness ==
    /\ ret.op = "to_usd"
    /\ ret.from_currency = "GBP"
    /\ ret.usd_value = ret.amount
    /\ ret.amount > 0
    /\ ret.date \in DOMAIN exchange_rates

\* the (origin label, value) pairs of the edges into a symbol's node
EdgesInto(symbol) ==
    {<<node_labels[flow_data[i].source + 1], flow_data[i].value>> :
        i \in {j \in 1 .. Len(flow_data) : node_labels[flow_data[j].target + 1] = symbol}}

CountInto(symbol) ==
    Cardinality({j \in 1 .. Len(flow_data) : node_labels[flow_data[j].target + 1] = symbol})

\* process_transactions has replayed the whole file
ReplayDone == pc = "replay" /\ idx = Len(df)

\* C21: when the sample portfolio has been replayed, the AAPL position holds 5
\* shares, MSFT is financed by an 800 USD edge from AAPL and an 800 USD edge from
\* Initial Cash, WDAY by a single 9000 USD edge from 'RSU Compensation', and
\* flow_data holds at least 3 edges.
C21_EndToEnd ==
    ReplayDone
        => /\ "AAPL" \in DOMAIN positions
           /\ positions["AAPL"].quantity = 5
           /\ EdgesInto("MSFT") = {<<"AAPL", 800>>, <<"Initial Cash", 800>>}
           /\ CountInto("MSFT") = 2
           /\ EdgesInto("WDAY") = {<<"RSU Compensation", 9000>>}
           /\ CountInto("WDAY") = 1
           /\ Len(flow_data) >= 3

\* the whole sample replayed from a file that lists the RSU grant first and the
\* AAPL sell before the AAPL buy, with no artifact for WDAY
C21_Witness ==
    /\ ReplayDone
    /\ Len(df) = 4
    /\ rows[1].symbol = "WDAY"
    /\ rows[2].transaction = "sell"
    /\ stock_files["WDAY"] = "absent"
    /\ Len(flow_data) = 4
    /\ DOMAIN positions = ScenarioSymbols

\* the received dividends of a symbol have just been credited
ReceivedCall == ret'.op = "dividends_received" /\ attributed' # attributed

\* the fund sources a step appended to the pool
NewFunds == SubSeq(available_funds', Len(available_funds) + 1, Len(available_funds'))

DividendSources(log) == {i \in 1 .. Len(log) : log[i].source_type = "dividend"}

C22_WitnessNotHeld ==
    /\ ret.op = "dividends_received"
    /\ ret.symbol = "MSFT"
    /\ dividends["MSFT"] = {3}
    /\ Len(df) = 2
    /\ "MSFT" \notin DOMAIN positions
    /\ ret.usd_value = 0
    /\ DividendSources(available_funds) = {}

\* C23: dividends_if_held leaves the pool as it is and constructs no fund source;
\* it returns zero for a symbol held on each of its dividend dates, a positive
\* amount for a symbol fully sold before one of them, and, for a symbol with one
\* dividend date, fully sold before it, shares sold x dividend per share in USD.
C23_DividendsIfHeld ==
    [][ret'.op = "dividends_if_held"
          => LET s == ret'.symbol
                 exited(d) == holdings_at(df, s, d) = 0 /\ sold_before(df, s, d) > 0
             IN /\ available_funds' = available_funds
                /\ created' = created
                /\ (\A d \in dividends[s] : holdings_at(df, s, d) > 0) => ret'.usd_value = 0
                /\ (\E d \in dividends[s] : exited(d)) => ret'.usd_value > 0
                /\ \A d \in dividends[s] :
                      (dividends[s] = {d} /\ exited(d))
                          => ret'.usd_value =
                                 _to_usd(exchange_rates,
                                         sold_before(df, s, d) * DividendPerShare(d),
                                         CurrencyOfFile(stock_files[s]), d)]_vars

\* MSFT bought on day 1 and sold on day 2, dividend on day 3: the hypothetical
\* dividend is positive and the pool holds only the sell's proceeds
C23_Witness ==
    /\ ret.op = "dividends_if_held"
    /\ ret.symbol = "MSFT"
    /\ dividends["MSFT"] = {3}
    /\ Len(df) = 2
    /\ "MSFT" \notin DOMAIN positions
    /\ ret.usd_value > 0
    /\ Len(available_funds) = 1
    /\ available_funds[1].source_type = "sell"

\* C24: replaying a sell appends exactly one FundSource to the pool, of kind
\* 'sell', for the sold symbol, with amount quantity x price in USD, which is
\* also the amount returned, whether or not the symbol is held; the sources
\* already in the pool and the flow edges are left as they were.
C24_SellCreditsPool ==
    [][(Replayed /\ ret'.op = "sell")
          => LET t == df'[idx']
                 fund_source == available_funds'[Len(available_funds')]
             IN /\ Len(available_funds') = Len(available_funds) + 1
                /\ SubSeq(available_funds', 1, Len(available_funds)) = available_funds
                /\ fund_source.source_type = "sell"
                /\ fund_source.symbol = t.symbol
                /\ fund_source.date = t.date
                /\ fund_source.amount_usd =
                       _to_usd(exchange_rates, t.quantity * t.price,
                               CurrencyOfFile(stock_files[t.symbol]), t.date)
                /\ ret'.usd_value = fund_source.amount_usd
                /\ flow_data' = flow_data]_vars

\* a sell of MSFT (EUR) replayed with no MSFT position: 12 USD credited, no edge
C24_Witness ==
    /\ ret.op = "sell"
    /\ idx = 1
    /\ ret.symbol = "MSFT"
    /\ positions = <<>>
    /\ Len(available_funds) = 1
    /\ available_funds[1].source_type = "sell"
    /\ available_funds[1].amount_usd = 12
    /\ ret.usd_value = 12
    /\ flow_data = <<>>

\* C25: replaying a buy (plain or compensation) of quantity q at price p for a
\* symbol with no position creates the position with quantity q, the symbol's
\* currency and cost basis q x p in that currency; for a symbol with a position
\* it adds q to the quantity and q x p to the cost basis and keeps the currency;
\* the positions of the other symbols are as they were.
C25_BuyUpdatesPosition ==
    [][(Replayed /\ ret'.op \in {"buy", "compensation"})
          => LET t == df'[idx']
                 s == t.symbol
                 v == t.quantity * t.price
             IN /\ DOMAIN positions' = DOMAIN positions \cup {s}
                /\ \A o \in DOMAIN positions \ {s} : positions'[o] = positions[o]
                /\ IF s \in DOMAIN positions
                   THEN /\ positions'[s].quantity = positions[s].quantity + t.quantity
                        /\ positions'[s].total_value = positions[s].total_value + v
                        /\ positions'[s].currency = positions[s].currency
                        /\ positions'[s].symbol = s
                   ELSE positions'[s] =
                            [symbol |-> s, quantity |-> t.quantity,
                             currency |-> CurrencyOfFile(stock_files[s]), total_value |-> v]]_vars

\* two buys of MSFT (EUR): 3 shares, cost basis 30 EUR, while AAPL is untouched
C25_Witness ==
    /\ ret.op \in {"buy", "compensation"}
    /\ ret.symbol = "MSFT"
    /\ idx = 3
    /\ df[1].symbol = "AAPL"
    /\ df[1].transaction = "buy"
    /\ df[2].symbol = "MSFT"
    /\ df[2].transaction = "buy"
    /\ "AAPL" \in DOMAIN positions
    /\ "MSFT" \in DOMAIN positions
    /\ positions["MSFT"].quantity = 3
    /\ positions["MSFT"].total_value = 30
    /\ positions["MSFT"].currency = "EUR"

\* C26: replaying a sell for a symbol with no position, or of more than the held
\* quantity, returns normally, leaves the symbol without a position and every
\* stored position with quantity > 0, and flags the transaction as an anomaly.
C26_OversellTolerance ==
    [][(Replayed /\ ret'.op = "sell"
          /\ (ret'.symbol \notin DOMAIN positions
                \/ ret'.quantity > positions[ret'.symbol].quantity))
          => /\ ret'.outcome = "returned"
             /\ ret'.symbol \notin DOMAIN positions'
             /\ \A s \in DOMAIN positions' : positions'[s].quantity > 0
             /\ ret'.flagged]_vars

\* what the parser's loop has appended to all_formatted_transactions in a step
EightDigits(date_str) == Len(date_str) = 8 /\ \A i \in 1 .. 8 : date_str[i] \in Digits

IsoDate(date) ==
    /\ Len(date) = 10
    /\ date[5] = "-"
    /\ date[8] = "-"
    /\ \A i \in {1, 2, 3, 4, 6, 7, 9, 10} : date[i] \in Digits

Malformed(transaction) ==
    \/ \E k \in required_keys : k \notin DOMAIN transaction
    \/ ~EightDigits(transaction.date)

\* C27: format_transaction returns None for a raw record that lacks one of
\* type, symbol, date, quantity, pricePerShare or whose date is not exactly 8
\* digits; the parser's loop appends a record only when format_transaction
\* returned one, appends that record, and its date is the raw date's digits
\* rewritten as YYYY-MM-DD; a file that cannot be read appends nothing.
C27_MalformedDropped ==
    [][/\ ret'.op = "format_transaction" =>
            /\ Malformed(raw_tx') => ret'.formatted = <<>>
            /\ ret'.formatted = <<>> => rows' = rows
            /\ ret'.formatted # <<>> =>
                  /\ rows' = Append(rows, ret'.formatted[1])
                  /\ IsoDate(ret'.formatted[1].date)
                  /\ SubSeq(ret'.formatted[1].date, 1, 4) = SubSeq(raw_tx'.date, 1, 4)
                  /\ SubSeq(ret'.formatted[1].date, 6, 7) = SubSeq(raw_tx'.date, 5, 6)
                  /\ SubSeq(ret'.formatted[1].date, 9, 10) = SubSeq(raw_tx'.date, 7, 8)
       /\ ret'.op # "format_transaction" => rows' = rows]_vars

\* C27 witness: a record with an 8-character date that is not all digits has
\* just been dropped after a well-formed record was emitted
C27_Witness ==
    /\ ret.op = "format_transaction"
    /\ ret.formatted = <<>>
    /\ required_keys \subseteq DOMAIN raw_tx
    /\ Len(raw_tx.date) = 8
    /\ Len(rows) = 1
    /\ IsoDate(rows[1].date)

\* C28: every record the normalization step emits has type 'buy' or 'sell',
\* quantity > 0, price >= 0 and a source tag among Funds, RSU, ESPP, PSU,
\* whatever the raw records are.
C28_EmittedSatisfyDataModel ==
    pc = "parser" =>
        \A i \in 1 .. Len(rows) :
            /\ rows[i].transaction \in {"buy", "sell"}
            /\ rows[i].quantity > 0
            /\ rows[i].price >= 0
            /\ rows[i].source \in SourceTags

HasWord(transaction, word) ==
    LET comment == Upper(IF "comment" \in DOMAIN transaction THEN transaction.comment ELSE <<>>)
    IN \E i \in 1 .. Len(comment), j \in 1 .. Len(comment) : SubSeq(comment, i, j) = word

IsBuyRecord(transaction) == "type" \in DOMAIN transaction /\ transaction.type = "BUY"

\* C29: determine_transaction_source returns 'Funds' for a record whose type is
\* not BUY; for a BUY, 'RSU' if the upper-cased comment contains RSU, else
\* 'ESPP' if it contains ESPP, else 'PSU' if it contains PSU, else 'Funds'; the
\* result is one of Funds, RSU, ESPP, PSU.
C29_SourceTag ==
    ret.op = "determine_transaction_source" =>
        LET rsu == HasWord(raw_tx, <<"R", "S", "U">>)
            espp == HasWord(raw_tx, <<"E", "S", "P", "P">>)
            psu == HasWord(raw_tx, <<"P", "S", "U">>)
        IN /\ ~IsBuyRecord(raw_tx) => ret.source = "Funds"
           /\ IsBuyRecord(raw_tx) /\ rsu => ret.source = "RSU"
           /\ IsBuyRecord(raw_tx) /\ ~rsu /\ espp => ret.source = "ESPP"
           /\ IsBuyRecord(raw_tx) /\ ~rsu /\ ~espp /\ psu => ret.source = "PSU"
           /\ IsBuyRecord(raw_tx) /\ ~rsu /\ ~espp /\ ~psu => ret.source = "Funds"
           /\ ret.source \in SourceTags

\* C29 witness: a BUY whose lower-case comment names PSU and ESPP is tagged ESPP
C29_Witness ==
    /\ ret.op = "determine_transaction_source"
    /\ IsBuyRecord(raw_tx)
    /\ HasWord(raw_tx, <<"P", "S", "U">>)
    /\ HasWord(raw_tx, <<"E", "S", "P", "P">>)
    /\ ret.source = "ESPP"

HasData(output_csv) == output_csv.kind = "data" /\ Len(output_csv.dates) > 0

\* C30: get_start_date returns the day after the latest date of the symbol's
\* data file when the file exists and is non-empty, and otherwise (no file, an
\* empty file, an invalid file) the earliest transaction date of the symbol.
C30_StartDate ==
    ret.op = "get_start_date" =>
        LET output_csv == stock_files[ret.symbol]
        IN /\ ret.outcome = "returned"
           /\ HasData(output_csv) =>
                 \E i \in 1 .. Len(output_csv.dates) :
                     /\ ret.value = output_csv.dates[i] + 1
                     /\ \A j \in 1 .. Len(output_csv.dates) :
                            output_csv.dates[j] <= output_csv.dates[i]
           /\ ~HasData(output_csv) =>
                 /\ \E i \in 1 .. Len(df) : df[i].symbol = ret.symbol /\ df[i].date = ret.value
                 /\ \A i \in 1 .. Len(df) : df[i].symbol = ret.symbol => ret.value <= df[i].date

IsBuyRow(t) == t.transaction = "buy"

\* the invocations of _allocate_funds owed to the rows df[1 .. n]
InvocationsOwed(n) ==
    LET buys == SelectSeq(SubSeq(df, 1, n), IsBuyRow)
    IN [k \in 1 .. Len(buys) |-> [symbol |-> buys[k].symbol, date |-> buys[k].date]]

InvocationsMade ==
    [k \in 1 .. Len(allocations) |-> [symbol |-> allocations[k].symbol,
                                      date |-> allocations[k].date]]

\* C31: a replay of a finite transaction list terminates (every row of the
\* sorted frame has been replayed, and the state then stays as it is); each
\* iteration replays the next row of the frame, so each buy and sell row is
\* processed exactly once; _allocate_funds has been invoked exactly once for
\* each buy row replayed so far and for no sell row, in the order of the rows.
C31_ReplayTerminates ==
    /\ <>[](pc = "replay" /\ idx = Len(df) /\ Len(df) = Len(rows))
    /\ [][idx' # idx =>
            /\ idx' = idx + 1
            /\ df' = df
            /\ ret'.op = (IF df[idx'].transaction = "sell" THEN "sell"
                          ELSE IF df[idx'].source \in CompensationTags THEN "compensation"
                          ELSE "buy")
            /\ ret'.symbol = df[idx'].symbol
            /\ ret'.date = df[idx'].date
            /\ ret'.quantity = df[idx'].quantity
            /\ ret'.price = df[idx'].price]_vars
    /\ [](InvocationsMade = InvocationsOwed(idx))

\* C31 witness: a replay of three rows is over, with a sell row and two
\* allocations made
C31_Witness ==
    /\ pc = "replay"
    /\ idx = Len(df)
    /\ Len(df) = 3
    /\ Len(allocations) = 2
    /\ \E i \in 1 .. 3 : df[i].transaction = "sell"

\* the registry is well formed: list positions are 1-based, node indices 0-based
RegistryWellFormed ==
    /\ \A i \in 1 .. Len(node_labels), j \in 1 .. Len(node_labels) :
           node_labels[i] = node_labels[j] => i = j
    /\ Len(node_colors) = Len(node_labels)
    /\ DOMAIN node_map = {node_labels[i] : i \in 1 .. Len(node_labels)}
    /\ \A i \in 1 .. Len(node_labels) : node_map[node_labels[i]] = i - 1
    /\ Len(node_labels) >= 1
    /\ node_labels[1] = "Initial Cash"
    /\ node_map["Initial Cash"] = 0

\* C32: in every reachable state node_labels has no duplicates, node_colors is
\* as long as node_labels, node_map[label] is the index of label in
\* node_labels for every label, 'Initial Cash' is at index 0; _add_node on a
\* label already registered returns its index and leaves the registry as it is,
\* and on a new label returns the index of the entry it appends.
C32_NodeRegistry ==
    /\ [](RegistryWellFormed)
    /\ [][ret'.op = "add_node" /\ ncalls' # ncalls =>
            IF ret'.symbol \in DOMAIN node_map
            THEN /\ node_labels' = node_labels
                 /\ node_colors' = node_colors
                 /\ node_map' = node_map
                 /\ ret'.node_idx = node_map[ret'.symbol]
            ELSE /\ node_labels' = Append(node_labels, ret'.symbol)
                 /\ ret'.node_idx = Len(node_labels)]_vars

\* C32 witness: with three labels registered, a compensation label among them,
\* _add_node has just returned the index of the second
C32_Witness ==
    /\ ret.op = "add_node"
    /\ ret.node_idx = 1
    /\ Len(node_labels) = 3
    /\ \E k \in CompensationTags : node_labels[3] = k \o " Compensation"

\* the value of the edges of flow[1 .. n] whose amount was drawn from a pool
\* source: in a replay the pool holds sale proceeds only, and an edge drawn
\* from one carries the sold symbol as its origin
RECURSIVE DrawnFromPool(_, _)
DrawnFromPool(flow, n) ==
    IF n = 0 THEN 0
    ELSE DrawnFromPool(flow, n - 1)
         + (IF flow[n].type = "Funds" /\ flow[n].from_symbol # "Initial Cash"
            THEN flow[n].value ELSE 0)

\* C33: at every point of a replay, the USD ever credited to the pool equals
\* the USD still in the pool plus the value of the flow edges whose amount was
\* drawn from a pool source.
C33_PoolAccounting ==
    pc = "replay" =>
        PrefixSum(created, Len(created))
            = PrefixSum(available_funds, Len(available_funds))
              + DrawnFromPool(flow_data, Len(flow_data))

\* the indices of an edge are those of its two labels in node_labels
ValidEdge(edge, labels) ==
    /\ edge.source \in 0 .. Len(labels) - 1
    /\ edge.target \in 0 .. Len(labels) - 1
    /\ labels[edge.source + 1] = edge.from_symbol
    /\ labels[edge.target + 1] = edge.symbol

\* C34: no replay step ends in the KeyError of a node lookup; every origin
\* label an allocation returns is registered in node_map before the buy is
\* replayed (the proceeds in the pool belong to registered symbols); the source
\* and target of every edge are indices into node_labels, those of its origin
\* and of its symbol, when the edge is appended and ever after.
C34_NodeLookupNeverFails ==
    /\ [](pc = "replay" => ret.outcome = "returned")
    /\ [](\A i \in 1 .. Len(available_funds) :
              available_funds[i].source_type = "sell"
                  => available_funds[i].symbol \in DOMAIN node_map)
    /\ [][idx' = idx + 1 /\ ret'.op \in {"buy", "compensation"} =>
            /\ \A i \in 1 .. Len(ret'.allocated) : ret'.allocated[i][1] \in DOMAIN node_map
            /\ \A i \in 1 .. Len(NewEdges) : ValidEdge(NewEdges[i], node_labels')]_vars
    /\ [](\A i \in 1 .. Len(flow_data) : ValidEdge(flow_data[i], node_labels))

\* C34 witness: a plain buy has been replayed whose allocation names a sold
\* symbol and 'Initial Cash', and both edges are recorded
C34_Witness ==
    /\ ret.op = "buy"
    /\ ret.outcome = "returned"
    /\ Len(ret.allocated) = 2
    /\ ret.allocated[1][1] # "Initial Cash"
    /\ ret.allocated[2][1] = "Initial Cash"
    /\ Len(flow_data) >= 2
    /\ flow_data[Len(flow_data)].source = 0
    /\ flow_data[Len(flow_data) - 1].source = node_map[ret.allocated[1][1]]

Ascending(dates) == \A i \in 1 .. Len(dates) - 1 : dates[i] < dates[i + 1]

\* the dates a step has appended to the file of a symbol
Fetched(symbol) ==
    SubSeq(stock_files'[symbol].dates, Len(stock_files[symbol].dates) + 1,
           Len(stock_files'[symbol].dates))

\* C35: over successive download runs, a run appends to the symbol's file only
\* dates after the last stored date (from the earliest transaction date when
\* none is stored) and before today, and keeps what the file holds; so no date
\* is in a file twice and the dates of a file ascend; a header line is written
\* only by a run that finds the file absent or empty, so a file has one at most.
C35_IncrementalDownload ==
    /\ [][\A symbol \in Symbols :
            LET old == stock_files[symbol]
                new == stock_files'[symbol]
            IN /\ Len(new.dates) >= Len(old.dates)
               /\ SubSeq(new.dates, 1, Len(old.dates)) = old.dates
               /\ \A i \in 1 .. Len(Fetched(symbol)) :
                      /\ Fetched(symbol)[i] < today
                      /\ \A j \in 1 .. Len(old.dates) : old.dates[j] < Fetched(symbol)[i]
                      /\ old.dates = <<>> =>
                             \E k \in 1 .. Len(df) :
                                 df[k].symbol = symbol /\ df[k].date <= Fetched(symbol)[i]
               /\ new.headers = old.headers
                                  + (IF new # old /\ old.kind \in {"absent", "empty"}
                                     THEN 1 ELSE 0)]_vars
    /\ [](\A symbol \in Symbols :
              /\ Ascending(stock_files[symbol].dates)
              /\ stock_files[symbol].headers <= 1
              /\ stock_files[symbol].dates # <<>> => stock_files[symbol].headers = 1)

\* C35 witness: after two runs, on day 3, a file holds days 1 and 2 under one
\* header line
C35_Witness ==
    /\ ret.op = "download_stock_history"
    /\ ncalls = 2
    /\ today = 3
    /\ \E symbol \in Symbols :
           /\ stock_files[symbol].kind = "data"
           /\ stock_files[symbol].dates = <<1, 2>>
           /\ stock_files[symbol].headers = 1

C36_WitnessSkipped ==
    /\ ret.op = "update_stock_data"
    /\ stock_files[ret.symbol].kind = "absent"
    /\ \/ ret.start_date.type = "str" /\ ret.start_date.day = today
       \/ ret.start_date.type = "badstr"
       \/ ret.fetch.kind = "history" /\ ret.start_date.type = "date" /\ ret.start_date.day < today

====
